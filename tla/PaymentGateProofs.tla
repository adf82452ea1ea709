-------------------------- MODULE PaymentGateProofs --------------------------
(***************************************************************************)
(* The payment gate's properties, for any number of handlers, hashes,      *)
(* quotes, routes and payers, and any bounds.                              *)
(***************************************************************************)
EXTENDS PaymentGate, TotalsTheorems

(* A row that carries a hash has been confirmed.                           *)
ConsumedRows ==
    \A q \in Quote :
       row[q].hash # NoHash => row[q].status \in {"confirmed", "upstream_failed"}

(* A handler that runs carries a hash; one that is past the gate has the   *)
(* row of its hash, and one that forwards names it.                        *)
Carried == \A s \in Slot : req[s].pc # "idle" => req[s].hash \in Hash

Held ==
    \A s \in Slot :
       /\ req[s].pc = "reread" => Bound(req[s].hash)
       /\ req[s].pc \in {"forward", "restore", "meter", "reply"} => req[s].quote \in Quote

(* Types alone are not inductive: reading the row again yields a quote     *)
(* only because a handler gets there with the hash in a row, and a row     *)
(* keeps its hash.                                                         *)
GateInv == TypeOK /\ ConsumedRows /\ Carried /\ Held

LEMMA Names == NoHash \notin Hash /\ NoQuote \notin Quote
BY GateAssumption

LEMMA RowOfBound ==
    ASSUME NEW h, Bound(h)
    PROVE  RowOf(h) \in Quote /\ row[RowOf(h)].hash = h
BY DEF Bound, RowOf

LEMMA IdleType == Idle \in ReqType
BY DEF Idle, ReqType, Fallible

(* The two ways a handler moves: to another step, and to its end.          *)
LEMMA GotoMoves ==
    ASSUME req \in [Slot -> ReqType], NEW s \in Slot,
           NEW pc \in Fallible \union {"idle", "verify", "forward", "mark", "release"},
           Goto(s, pc)
    PROVE  /\ req' \in [Slot -> ReqType]
           /\ req'[s] = [req[s] EXCEPT !.pc = pc]
           /\ \A t \in Slot : t # s => req'[t] = req[t]
BY DEF Goto, ReqType

LEMMA FinishMoves ==
    ASSUME req \in [Slot -> ReqType], NEW s \in Slot, Finish(s)
    PROVE  /\ req' \in [Slot -> ReqType]
           /\ req'[s] = Idle
           /\ \A t \in Slot : t # s => req'[t] = req[t]
BY IdleType DEF Finish

(* A settled refusal either ends the handler or sends it to its catch      *)
(* block.                                                                  *)
LEMMA RefuseMoves ==
    ASSUME req \in [Slot -> ReqType], NEW s \in Slot, Refuse(s)
    PROVE  /\ req' \in [Slot -> ReqType]
           /\ req'[s] = Idle \/ req'[s] = [req[s] EXCEPT !.pc = "mark"]
           /\ \A t \in Slot : t # s => req'[t] = req[t]
BY GotoMoves, FinishMoves DEF Refuse

-------------------------------------------------------------------------------

(* What a step does to the rows: a row that carries a hash keeps it and    *)
(* stays confirmed or retryable; only Win gives a row a hash.              *)
RowsKept ==
    \A q \in Quote : row[q].hash # NoHash =>
       /\ row'[q].hash = row[q].hash
       /\ row'[q].status \in {"confirmed", "upstream_failed"}

LEMMA WinRows ==
    ASSUME TypeOK, ConsumedRows, Carried, NEW s \in Slot, At(s, "confirm"),
           NEW q \in Quote, NEW old \in RowType, row[q].hash = NoHash,
           Win(s, q, old)
    PROVE  /\ row' \in [Quote -> RowType] /\ ConsumedRows' /\ RowsKept
           /\ req[s].hash \in Hash
           /\ row'[q].hash = req[s].hash
           /\ \A p \in Quote : p # q => row'[p] = row[p]
<1> DEFINE h == req[s].hash
           new == [old EXCEPT !.status = "confirmed", !.hash = h]
<1>1. h \in Hash
  BY DEF At, Carried
<1>2. new \in RowType /\ new.hash = h /\ new.status = "confirmed"
  BY <1>1 DEF RowType
<1>3. row' = [row EXCEPT ![q] = new]
  BY DEF Win
<1> HIDE DEF new
<1>4. /\ row' \in [Quote -> RowType]
      /\ row'[q] = new
      /\ \A p \in Quote : p # q => row'[p] = row[p]
  BY <1>2, <1>3 DEF TypeOK
<1> QED
  BY <1>1, <1>2, <1>4 DEF ConsumedRows, RowsKept

LEMMA NextRows ==
    TypeOK /\ ConsumedRows /\ Carried /\ [Next]_vars
       => row' \in [Quote -> RowType] /\ ConsumedRows' /\ RowsKept
<1> SUFFICES ASSUME TypeOK, ConsumedRows, Carried, [Next]_vars
             PROVE  row' \in [Quote -> RowType] /\ ConsumedRows' /\ RowsKept
  OBVIOUS
<1>u. ASSUME UNCHANGED row
      PROVE  row' \in [Quote -> RowType] /\ ConsumedRows' /\ RowsKept
  BY <1>u DEF TypeOK, ConsumedRows, RowsKept
<1>1. ASSUME NEW q \in Quote, NEW route \in Route, IssueQuote(q, route)
      PROVE  row' \in [Quote -> RowType] /\ ConsumedRows' /\ RowsKept
  <2>1. /\ Pending(route, now) \in RowType /\ Pending(route, now).hash = NoHash
        /\ row[q].hash = NoHash
    BY <1>1 DEF Pending, RowType, TypeOK, IssueQuote, Unused, ConsumedRows
  <2>2. row' = [row EXCEPT ![q] = Pending(route, now)]
    BY <1>1 DEF IssueQuote
  <2> QED
    BY <2>1, <2>2 DEF TypeOK, ConsumedRows, RowsKept
<1>2. ASSUME ExpireStale
      PROVE  row' \in [Quote -> RowType] /\ ConsumedRows' /\ RowsKept
  <2>1. \A q \in Quote :
           \/ row'[q] = row[q]
           \/ row[q].status = "pending" /\ row'[q] = [row[q] EXCEPT !.status = "expired"]
    BY <1>2 DEF ExpireStale
  <2>2. row' \in [Quote -> RowType]
    BY <1>2 DEF ExpireStale, TypeOK, RowType
  <2>3. \A q \in Quote : row[q] \in RowType
    BY DEF TypeOK
  <2> QED
    BY <2>1, <2>2, <2>3 DEF ConsumedRows, RowsKept, RowType
<1>3. ASSUME NEW s \in Slot, Confirm(s)
      PROVE  row' \in [Quote -> RowType] /\ ConsumedRows' /\ RowsKept
  <2>1. CASE UNCHANGED row
    BY <1>u, <2>1
  <2>2. ASSUME NEW q \in Quote, row[q].hash = NoHash, Win(s, q, row[q])
        PROVE  row' \in [Quote -> RowType] /\ ConsumedRows' /\ RowsKept
    BY <1>3, <2>2, WinRows DEF Confirm, TypeOK
  <2>3. ASSUME NEW q \in Unused, Win(s, q, Pending(req[s].route, req[s].issued))
        PROVE  row' \in [Quote -> RowType] /\ ConsumedRows' /\ RowsKept
    <3>1. q \in Quote /\ row[q].hash = NoHash
      BY <2>3 DEF Unused, ConsumedRows
    <3>2. Pending(req[s].route, req[s].issued) \in RowType
      BY DEF Pending, RowType, TypeOK, ReqType
    <3> QED
      BY <1>3, <2>3, <3>1, <3>2, WinRows DEF Confirm
  <2>4. req[s].quote \in Quote \union {NoQuote}
    BY DEF TypeOK, ReqType
  <2> QED
    BY <1>3, <2>1, <2>2, <2>3, <2>4 DEF Confirm
<1>4. ASSUME NEW s \in Slot, Restore(s)
      PROVE  row' \in [Quote -> RowType] /\ ConsumedRows' /\ RowsKept
  <2>1. \A q \in Quote :
           \/ row'[q] = row[q]
           \/ /\ row[q].status = "upstream_failed"
              /\ row'[q] = [row[q] EXCEPT !.status = "confirmed"]
    BY <1>4 DEF Restore, Restored, TypeOK
  <2>3. \A q \in Quote : row[q] \in RowType
    BY DEF TypeOK
  <2>4. DOMAIN row' = Quote /\ row' = [q \in Quote |-> row'[q]]
    BY <1>4 DEF Restore, Restored, TypeOK
  <2>5. \A q \in Quote : row'[q] \in RowType
    BY <2>1, <2>3 DEF RowType
  <2>2. row' \in [Quote -> RowType]
    BY <2>4, <2>5
  <2> QED
    BY <2>1, <2>2, <2>3 DEF ConsumedRows, RowsKept, RowType
<1>5. ASSUME NEW s \in Slot, MarkUpstreamFailure(s)
      PROVE  row' \in [Quote -> RowType] /\ ConsumedRows' /\ RowsKept
  <2>1. \A q \in Quote :
           \/ row'[q] = row[q]
           \/ /\ row[q].hash \in Hash
              /\ row'[q] = [row[q] EXCEPT !.status = "upstream_failed"]
    BY <1>5 DEF MarkUpstreamFailure, Marked, Carried, At
  <2>2. row' \in [Quote -> RowType]
    BY <1>5 DEF MarkUpstreamFailure, Marked, TypeOK, RowType
  <2>3. \A q \in Quote : row[q] \in RowType
    BY DEF TypeOK
  <2> QED
    BY <2>1, <2>2, <2>3 DEF ConsumedRows, RowsKept, RowType
<1>6. ASSUME NEW s \in Slot,
             \/ Lookup(s) \/ Resolve(s) \/ ClaimHash(s) \/ VerifyOnChain(s)
             \/ ReadDebt(s) \/ SettleDebts(s) \/ Reread(s) \/ Forward(s)
             \/ Meter(s) \/ Reply(s) \/ ReleaseHash(s) \/ Throw(s) \/ Die(s)
      PROVE  UNCHANGED row
  BY <1>6 DEF Lookup, Resolve, ClaimHash, VerifyOnChain, ReadDebt, SettleDebts, Reread,
              Forward, Meter, Reply, ReleaseHash, Throw, Die, ledgers
<1>7. ASSUME \/ Tick
             \/ \E h \in Hash, memo \in Quote \union {NoQuote}, payer \in Payer,
                   n \in 1 .. MAX_AMOUNT : Pay(h, memo, payer, n)
             \/ \E h \in Hash : LoseClaim(h)
             \/ \E s \in Slot, h \in Hash, route \in Route,
                   header \in Quote \union {NoQuote} : StartChat(s, h, route, header)
             \/ \E s \in Slot, h \in Hash, q \in Quote : StartVerify(s, h, q)
      PROVE  UNCHANGED row
  BY <1>7 DEF Tick, Pay, LoseClaim, StartChat, StartVerify, ledgers
<1>8. CASE UNCHANGED vars
  BY <1>8, <1>u DEF vars, ledgers
<1> QED
  BY <1>u, <1>1, <1>2, <1>3, <1>4, <1>5, <1>6, <1>7, <1>8 DEF Next, Handle

(* The bindings a step keeps are those the other handlers rely on, so only *)
(* the handler that moves needs a look.                                    *)
StaysBound(h) == \E q \in Quote : row'[q].hash = h

LEMMA BoundKept ==
    ASSUME RowsKept, NEW h \in Hash, Bound(h)
    PROVE  StaysBound(h)
BY Names DEF RowsKept, Bound, StaysBound

LEMMA MoveKeeps ==
    ASSUME TypeOK, Carried, Held, RowsKept,
           NEW s \in Slot,
           \A t \in Slot : t # s => /\ req'[t].pc = req[t].pc
                                   /\ req'[t].hash = req[t].hash
                                   /\ req'[t].quote = req[t].quote,
           req'[s].pc # "idle" => req'[s].hash \in Hash,
           req'[s].pc = "reread" => StaysBound(req'[s].hash),
           req'[s].pc \in {"forward", "restore", "meter", "reply"}
              => req'[s].quote \in Quote
    PROVE  Carried' /\ Held'
<1>1. ASSUME NEW t \in Slot, t # s
      PROVE  /\ req'[t].pc # "idle" => req'[t].hash \in Hash
             /\ req'[t].pc = "reread" => StaysBound(req'[t].hash)
             /\ req'[t].pc \in {"forward", "restore", "meter", "reply"}
                   => req'[t].quote \in Quote
  <2>1. req[t].pc = "reread" => StaysBound(req[t].hash)
    BY BoundKept DEF Carried, Held
  <2> QED
    BY <1>1, <2>1 DEF Carried, Held
<1> QED
  BY <1>1 DEF Carried, Held, Bound, StaysBound

(* The environment and the job move no handler.                            *)
LEMMA StandsStill ==
    ASSUME TypeOK, Carried, Held, RowsKept, UNCHANGED req
    PROVE  Carried' /\ Held'
<1>1. \A s \in Slot : req[s].pc = "reread" => StaysBound(req[s].hash)
  BY BoundKept DEF Carried, Held
<1> QED
  BY <1>1 DEF Carried, Held, Bound, StaysBound

-------------------------------------------------------------------------------

(* Each step of a handler keeps the types of the locals and what is said   *)
(* of them in Carried and Held.                                            *)
ReqKept == req' \in [Slot -> ReqType] /\ Carried' /\ Held'

(* A move given by the handler's new record.                               *)
LEMMA ReplaceKeeps ==
    ASSUME TypeOK, Carried, Held, RowsKept, NEW s \in Slot, NEW r \in ReqType,
           req' = [req EXCEPT ![s] = r],
           r.pc # "idle" => r.hash \in Hash,
           r.pc = "reread" => StaysBound(r.hash),
           r.pc \in {"forward", "restore", "meter", "reply"} => r.quote \in Quote
    PROVE  ReqKept
<1>1. /\ req' \in [Slot -> ReqType] /\ req'[s] = r
      /\ \A t \in Slot : t # s => req'[t] = req[t]
  BY DEF TypeOK
<1> QED
  BY <1>1, MoveKeeps DEF ReqKept

LEMMA FinishKeeps ==
    ASSUME TypeOK, Carried, Held, RowsKept, NEW s \in Slot, Finish(s)
    PROVE  ReqKept
<1>1. /\ req' \in [Slot -> ReqType]
      /\ req'[s] = Idle
      /\ \A t \in Slot : t # s => req'[t] = req[t]
  BY FinishMoves DEF TypeOK
<1>2. Idle.pc = "idle"
  BY DEF Idle
<1> QED
  BY <1>1, <1>2, MoveKeeps DEF ReqKept

(* A step that claims nothing new of the handler.                          *)
LEMMA GotoKeeps ==
    ASSUME TypeOK, Carried, Held, RowsKept, NEW s \in Slot,
           NEW pc \in Fallible \union {"idle", "verify", "forward", "mark", "release"},
           Goto(s, pc), req[s].hash \in Hash, pc # "reread",
           pc \in {"forward", "restore", "meter", "reply"} => req[s].quote \in Quote
    PROVE  ReqKept
<1>1. /\ req' \in [Slot -> ReqType]
      /\ req'[s] = [req[s] EXCEPT !.pc = pc]
      /\ \A t \in Slot : t # s => req'[t] = req[t]
  BY GotoMoves DEF TypeOK
<1>2. req'[s].pc = pc /\ req'[s].hash = req[s].hash /\ req'[s].quote = req[s].quote
  BY <1>1 DEF TypeOK, ReqType
<1> QED
  BY <1>1, <1>2, MoveKeeps DEF ReqKept

LEMMA RefuseKeeps ==
    ASSUME TypeOK, Carried, Held, RowsKept, NEW s \in Slot, Refuse(s),
           req[s].hash \in Hash
    PROVE  ReqKept
BY FinishKeeps, GotoKeeps DEF Refuse

LEMMA NextReq ==
    GateInv /\ RowsKept /\ [Next]_vars => ReqKept
<1> SUFFICES ASSUME GateInv, RowsKept, [Next]_vars PROVE ReqKept
  OBVIOUS
<1> USE DEF GateInv
<1>u. ASSUME UNCHANGED req PROVE ReqKept
  BY <1>u, StandsStill DEF ReqKept, TypeOK
<1>0. \A s \in Slot : req[s] \in ReqType /\ (req[s].pc # "idle" => req[s].hash \in Hash)
  BY DEF TypeOK, Carried
<1>1. ASSUME NEW s \in Slot, NEW h \in Hash, NEW route \in Route,
             NEW header \in Quote \union {NoQuote}, StartChat(s, h, route, header)
      PROVE  ReqKept
  <2> DEFINE r == [Idle EXCEPT !.pc = "lookup", !.hash = h, !.route = route, !.header = header]
  <2>1. r \in ReqType /\ r.pc = "lookup" /\ r.hash = h
    BY DEF Idle, ReqType, Fallible
  <2>2. req' = [req EXCEPT ![s] = r]
    BY <1>1 DEF StartChat
  <2> HIDE DEF r
  <2>3. /\ req' \in [Slot -> ReqType] /\ req'[s] = r
        /\ \A t \in Slot : t # s => req'[t] = req[t]
    BY <2>1, <2>2 DEF TypeOK
  <2> QED
    BY <2>1, <2>3, MoveKeeps DEF ReqKept
<1>2. ASSUME NEW s \in Slot, NEW h \in Hash, NEW q \in Quote, StartVerify(s, h, q)
      PROVE  ReqKept
  <2> DEFINE r == [Idle EXCEPT !.pc = "claim", !.kind = "verify", !.hash = h, !.quote = q,
                               !.route = row[q].route, !.issued = row[q].issued]
  <2>1. r \in ReqType /\ r.pc = "claim" /\ r.hash = h
    BY DEF Idle, ReqType, Fallible, TypeOK, RowType
  <2>2. req' = [req EXCEPT ![s] = r]
    BY <1>2 DEF StartVerify
  <2> HIDE DEF r
  <2>3. /\ req' \in [Slot -> ReqType] /\ req'[s] = r
        /\ \A t \in Slot : t # s => req'[t] = req[t]
    BY <2>1, <2>2 DEF TypeOK
  <2> QED
    BY <2>1, <2>3, MoveKeeps DEF ReqKept
<1>3. ASSUME NEW s \in Slot, Lookup(s) PROVE ReqKept
  <2>1. CASE Goto(s, "resolve")
    BY <1>0, <1>3, <2>1, GotoKeeps DEF Lookup, At, Fallible
  <2>2. CASE Finish(s)
    BY <2>2, FinishKeeps
  <2>3. ASSUME Bound(req[s].hash),
               req' = [req EXCEPT ![s] = [@ EXCEPT !.pc = "reread", !.header = NoQuote]]
        PROVE  ReqKept
    <3>1. req[s].hash \in Hash
      BY <1>0, <1>3 DEF Lookup, At
    <3>2. StaysBound(req[s].hash)
      BY <2>3, <3>1, BoundKept
    <3> DEFINE r == [req[s] EXCEPT !.pc = "reread", !.header = NoQuote]
    <3>3. r \in ReqType /\ r.pc = "reread" /\ r.hash = req[s].hash
      BY <1>0 DEF ReqType, Fallible
    <3>4. req' = [req EXCEPT ![s] = r]
      BY <2>3
    <3> HIDE DEF r
    <3> QED
      BY <3>1, <3>2, <3>3, <3>4, ReplaceKeeps
  <2> QED
    BY <1>3, <2>1, <2>2, <2>3 DEF Lookup
<1>4. ASSUME NEW s \in Slot, Resolve(s) PROVE ReqKept
  <2>1. CASE Finish(s)
    BY <2>1, FinishKeeps
  <2>2. ASSUME NEW q \in Quote \union {NoQuote}, NEW t \in Nat,
               req' = [req EXCEPT ![s] = [@ EXCEPT !.pc = "claim", !.header = NoQuote,
                                                   !.quote = q, !.issued = t]]
        PROVE  ReqKept
    <3>1. req[s].hash \in Hash
      BY <1>0, <1>4 DEF Resolve, At
    <3> DEFINE r == [req[s] EXCEPT !.pc = "claim", !.header = NoQuote, !.quote = q,
                                   !.issued = t]
    <3>2. r \in ReqType /\ r.pc = "claim" /\ r.hash = req[s].hash
      BY <1>0 DEF ReqType, Fallible
    <3>3. req' = [req EXCEPT ![s] = r]
      BY <2>2
    <3> HIDE DEF r
    <3> QED
      BY <3>1, <3>2, <3>3, ReplaceKeeps
  <2>3. Resolved(s) \subseteq Quote \union {NoQuote}
    BY <1>0 DEF Resolved, ReqType
  <2>4. now \in Nat /\ \A q \in Quote : row[q].issued \in Nat
    BY GateAssumption DEF TypeOK, RowType
  <2>5. PICK q \in Resolved(s) :
           \/ Finish(s)
           \/ \E t \in {now, IF q = NoQuote THEN now ELSE row[q].issued} :
                 req' = [req EXCEPT ![s] = [@ EXCEPT !.pc = "claim", !.header = NoQuote,
                                                     !.quote = q, !.issued = t]]
    BY <1>4 DEF Resolve
  <2>6. now \in Nat /\ (IF q = NoQuote THEN now ELSE row[q].issued) \in Nat
    BY <2>3, <2>4
  <2> QED
    BY <2>1, <2>2, <2>3, <2>5, <2>6
<1>5. ASSUME NEW s \in Slot, ClaimHash(s) PROVE ReqKept
  BY <1>0, <1>5, RefuseKeeps, GotoKeeps DEF ClaimHash, At
<1>6. ASSUME NEW s \in Slot, VerifyOnChain(s) PROVE ReqKept
  BY <1>0, <1>6, RefuseKeeps, GotoKeeps DEF VerifyOnChain, At, Fallible
<1>7. ASSUME NEW s \in Slot, ReadDebt(s) PROVE ReqKept
  BY <1>0, <1>7, RefuseKeeps, GotoKeeps DEF ReadDebt, At, Fallible
<1>8. ASSUME NEW s \in Slot, SettleDebts(s) PROVE ReqKept
  BY <1>0, <1>8, GotoKeeps DEF SettleDebts, At, Fallible
<1>9. ASSUME NEW s \in Slot, Confirm(s) PROVE ReqKept
  <2>1. CASE Finish(s)
    BY <2>1, FinishKeeps
  <2>2. ASSUME NEW q \in Quote, NEW old \in RowType, Win(s, q, old), Goto(s, "reread")
        PROVE  ReqKept
    <3>1. req[s].hash \in Hash
      BY <1>0, <1>9 DEF Confirm, At
    <3>2. /\ req' \in [Slot -> ReqType]
          /\ req'[s] = [req[s] EXCEPT !.pc = "reread"]
          /\ \A t \in Slot : t # s => req'[t] = req[t]
      BY <2>2, GotoMoves DEF TypeOK, Fallible
    <3>3. req'[s].pc = "reread" /\ req'[s].hash = req[s].hash
      BY <3>2, <1>0 DEF ReqType
    <3>4. StaysBound(req[s].hash)
      BY <2>2 DEF Win, StaysBound, TypeOK, RowType
    <3> QED
      BY <3>1, <3>2, <3>3, <3>4, MoveKeeps DEF ReqKept
  <2>3. \A q \in Unused : q \in Quote
    BY DEF Unused
  <2>4. \A q \in Quote : row[q] \in RowType
    BY DEF TypeOK
  <2>5. Pending(req[s].route, req[s].issued) \in RowType
    BY <1>0 DEF Pending, RowType, ReqType
  <2>6. req[s].quote \in Quote \union {NoQuote}
    BY <1>0 DEF ReqType
  <2>7. ASSUME NEW q \in Quote, NEW old \in RowType, Win(s, q, old)
        PROVE  ReqKept
    BY <2>1, <2>2, <2>7 DEF Win
  <2> QED
    BY <1>9, <2>1, <2>3, <2>4, <2>5, <2>6, <2>7 DEF Confirm
<1>10. ASSUME NEW s \in Slot, Reread(s) PROVE ReqKept
  <2> DEFINE q == RowOf(req[s].hash)
             u == row[q].status = "upstream_failed"
  <2>1. req[s].hash \in Hash /\ q \in Quote
    BY <1>0, <1>10, RowOfBound DEF Reread, At, Held
  <2>2. u \in BOOLEAN
    OBVIOUS
  <2> DEFINE r == [req[s] EXCEPT !.pc = "forward", !.quote = q, !.issued = 0,
                                 !.missed = {}, !.retry = u]
  <2>3. req' = [req EXCEPT ![s] = r]
    BY <1>10 DEF Reread
  <2> HIDE DEF q, u
  <2>4. r \in ReqType /\ r.pc = "forward" /\ r.hash = req[s].hash /\ r.quote = q
    BY <1>0, <2>1, <2>2 DEF ReqType
  <2> HIDE DEF r
  <2> QED
    BY <2>1, <2>3, <2>4, ReplaceKeeps
<1>11. ASSUME NEW s \in Slot, Forward(s) PROVE ReqKept
  <2>1. req[s].hash \in Hash /\ req[s].quote \in Quote
    BY <1>0, <1>11 DEF Forward, At, Held
  <2>2. ASSUME req' = [req EXCEPT ![s] = [@ EXCEPT !.pc = "meter", !.stream = TRUE]]
        PROVE  ReqKept
    <3> DEFINE r == [req[s] EXCEPT !.pc = "meter", !.stream = TRUE]
    <3>1. /\ r \in ReqType
          /\ r.pc = "meter" /\ r.hash = req[s].hash /\ r.quote = req[s].quote
      BY <1>0 DEF ReqType, Fallible
    <3>2. req' = [req EXCEPT ![s] = r]
      BY <2>2
    <3> HIDE DEF r
    <3> QED
      BY <2>1, <3>1, <3>2, ReplaceKeeps
  <2> QED
    BY <1>11, <2>1, <2>2, GotoKeeps DEF Forward, Fallible
<1>12. ASSUME NEW s \in Slot, Restore(s) PROVE ReqKept
  <2>1. req[s].hash \in Hash /\ req[s].quote \in Quote
    BY <1>0, <1>12 DEF Restore, At, Held
  <2> QED
    BY <1>12, <2>1, GotoKeeps, FinishKeeps DEF Restore, Fallible
<1>13. ASSUME NEW s \in Slot, Meter(s) PROVE ReqKept
  <2> DEFINE q == req[s].quote
             next == IF ~req[s].stream THEN [req[s] EXCEPT !.pc = "reply"]
                     ELSE IF req[s].retry THEN [req[s] EXCEPT !.pc = "restore"]
                     ELSE Idle
  <2>1. req[s].hash \in Hash /\ q \in Quote
    BY <1>0, <1>13 DEF Meter, At, Held
  <2>2. /\ next \in ReqType
        /\ next.pc # "idle" => next.hash = req[s].hash
        /\ next.pc # "reread"
        /\ next.pc \in {"forward", "restore", "meter", "reply"} => next.quote = q
    BY <1>0, IdleType DEF ReqType, Fallible, Idle
  <2>3. /\ req'[s] = next
        /\ \A t \in Slot : t # s =>
              req'[t] = req[t] \/ req'[t] = [req[t] EXCEPT !.missed = @ \union {q}]
        /\ req' = [t \in Slot |-> req'[t]]
    BY <1>13 DEF Meter
  <2> HIDE DEF next, q
  <2>4. \A t \in Slot : t # s =>
           /\ req'[t] \in ReqType
           /\ req'[t].pc = req[t].pc
           /\ req'[t].hash = req[t].hash
           /\ req'[t].quote = req[t].quote
    BY <1>0, <2>1, <2>3 DEF ReqType
  <2>5. req' \in [Slot -> ReqType]
    BY <2>2, <2>3, <2>4
  <2>6. /\ req'[s].pc # "idle" => req'[s].hash \in Hash
        /\ req'[s].pc # "reread"
        /\ req'[s].pc \in {"forward", "restore", "meter", "reply"} => req'[s].quote \in Quote
    BY <2>1, <2>2, <2>3
  <2> QED
    BY <2>4, <2>5, <2>6, MoveKeeps DEF ReqKept
<1>14. ASSUME NEW s \in Slot, Reply(s) PROVE ReqKept
  BY <1>14, FinishKeeps DEF Reply
<1>15. ASSUME NEW s \in Slot, MarkUpstreamFailure(s) PROVE ReqKept
  BY <1>0, <1>15, GotoKeeps DEF MarkUpstreamFailure, At
<1>16. ASSUME NEW s \in Slot, ReleaseHash(s) PROVE ReqKept
  BY <1>16, FinishKeeps DEF ReleaseHash
<1>17. ASSUME NEW s \in Slot, Throw(s) PROVE ReqKept
  BY <1>0, <1>17, GotoKeeps, FinishKeeps DEF Throw, Fallible
<1>18. ASSUME NEW s \in Slot, Die(s) PROVE ReqKept
  BY <1>18, FinishKeeps DEF Die
<1>19. ASSUME \/ Tick \/ ExpireStale
              \/ \E q \in Quote, route \in Route : IssueQuote(q, route)
              \/ \E h \in Hash, memo \in Quote \union {NoQuote}, payer \in Payer,
                    n \in 1 .. MAX_AMOUNT : Pay(h, memo, payer, n)
              \/ \E h \in Hash : LoseClaim(h)
       PROVE  UNCHANGED req
  BY <1>19 DEF Tick, ExpireStale, IssueQuote, Pay, LoseClaim
<1>20. CASE UNCHANGED vars
  BY <1>20, <1>u DEF vars
<1> QED
  BY <1>u, <1>1, <1>2, <1>3, <1>4, <1>5, <1>6, <1>7, <1>8, <1>9, <1>10, <1>11, <1>12,
     <1>13, <1>14, <1>15, <1>16, <1>17, <1>18, <1>19, <1>20 DEF Next, Handle

-------------------------------------------------------------------------------

LEMMA InitInv == Init => GateInv
<1> SUFFICES ASSUME Init PROVE GateInv
  OBVIOUS
<1> USE DEF Init
<1>1. NoRow \in RowType /\ NoRow.hash = NoHash
  BY DEF NoRow, RowType
<1>2. Idle.pc = "idle"
  BY DEF Idle
<1>3. TypeOK
  BY <1>1, IdleType, GateAssumption DEF TypeOK
<1>4. ConsumedRows
  BY <1>1 DEF ConsumedRows
<1>5. Carried /\ Held
  BY <1>2 DEF Carried, Held
<1> QED
  BY <1>3, <1>4, <1>5 DEF GateInv

(* A handler moves neither the clock nor the chain.                        *)
LEMMA HandlersWrite ==
    ASSUME NEW s \in Slot, Handle(s)
    PROVE  /\ UNCHANGED <<now, tx>>
           /\ SettleDebts(s) \/ UNCHANGED settled
           /\ Meter(s) \/ UNCHANGED debt
           /\ ClaimHash(s) \/ VerifyOnChain(s) \/ ReleaseHash(s) \/ UNCHANGED <<claimed, recorded>>
           /\ Confirm(s) \/ Forward(s) \/ Reply(s) \/ UNCHANGED history
<1>1. CASE Lookup(s) \/ Resolve(s) \/ ReadDebt(s) \/ Reread(s)
  BY <1>1 DEF Lookup, Resolve, ReadDebt, Reread, ledgers
<1>2. CASE ClaimHash(s) \/ VerifyOnChain(s) \/ ReleaseHash(s)
  BY <1>2 DEF ClaimHash, VerifyOnChain, ReleaseHash, ledgers
<1>3. CASE SettleDebts(s) \/ Meter(s) \/ Restore(s) \/ MarkUpstreamFailure(s)
  BY <1>3 DEF SettleDebts, Meter, Restore, MarkUpstreamFailure
<1>4. CASE Confirm(s) \/ Forward(s) \/ Reply(s)
  BY <1>4 DEF Confirm, Forward, Reply, ledgers
<1> QED
  BY <1>1, <1>2, <1>3, <1>4 DEF Handle

LEMMA OthersWrite ==
    ASSUME [Next]_vars, \A s \in Slot : ~Handle(s)
    PROVE  /\ Tick \/ UNCHANGED now
           /\ \/ UNCHANGED tx
              \/ \E h \in Hash, memo \in Quote \union {NoQuote}, payer \in Payer,
                    n \in 1 .. MAX_AMOUNT : Pay(h, memo, payer, n)
           /\ UNCHANGED <<settled, debt, recorded>>
           /\ (\E h \in Hash : LoseClaim(h)) \/ UNCHANGED claimed
           /\ (\E s \in Slot : Die(s)) \/ UNCHANGED history
<1> USE DEF ledgers
<1>1. CASE UNCHANGED vars
  BY <1>1 DEF vars
<1>2. CASE Tick
  BY <1>2 DEF Tick
<1>3. CASE \E q \in Quote, route \in Route : IssueQuote(q, route)
  BY <1>3 DEF IssueQuote
<1>4. CASE \E h \in Hash, memo \in Quote \union {NoQuote}, payer \in Payer, n \in 1 .. MAX_AMOUNT :
              Pay(h, memo, payer, n)
  BY <1>4 DEF Pay
<1>5. CASE (\E h \in Hash : LoseClaim(h)) \/ ExpireStale
  BY <1>5 DEF LoseClaim, ExpireStale
<1>6. ASSUME NEW s \in Slot,
             \/ \E h \in Hash, route \in Route, header \in Quote \union {NoQuote} :
                   StartChat(s, h, route, header)
             \/ \E h \in Hash, q \in Quote : StartVerify(s, h, q)
      PROVE  UNCHANGED <<now, tx, ledgers, claimed, recorded, history>>
  BY <1>6 DEF StartChat, StartVerify
<1>7. ASSUME NEW s \in Slot, Throw(s) \/ Die(s)
      PROVE  UNCHANGED <<now, tx, ledgers, claimed, recorded>> /\ (Die(s) \/ UNCHANGED history)
  BY <1>7 DEF Throw, Die
<1> QED
  BY <1>1, <1>2, <1>3, <1>4, <1>5, <1>6, <1>7 DEF Next

LEMMA ClockMoves == ASSUME [Next]_vars PROVE Tick \/ UNCHANGED now
BY HandlersWrite, OthersWrite

LEMMA ChainMoves ==
    ASSUME [Next]_vars
    PROVE  \/ UNCHANGED tx
           \/ \E h \in Hash, memo \in Quote \union {NoQuote}, payer \in Payer, n \in 1 .. MAX_AMOUNT :
                 Pay(h, memo, payer, n)
BY HandlersWrite, OthersWrite

LEMMA ClaimsMove ==
    ASSUME [Next]_vars
    PROVE  \/ UNCHANGED <<claimed, recorded>>
           \/ \E s \in Slot : ClaimHash(s) \/ VerifyOnChain(s) \/ ReleaseHash(s)
           \/ \E h \in Hash : LoseClaim(h)
BY HandlersWrite, OthersWrite

LEMMA DebtsMove ==
    ASSUME [Next]_vars
    PROVE  /\ UNCHANGED debt \/ \E s \in Slot : Meter(s)
           /\ UNCHANGED settled \/ \E s \in Slot : SettleDebts(s)
BY HandlersWrite, OthersWrite

LEMMA HistoryMoves ==
    ASSUME [Next]_vars
    PROVE  \/ UNCHANGED history
           \/ \E s \in Slot : Confirm(s) \/ Forward(s) \/ Reply(s) \/ Die(s)
BY HandlersWrite, OthersWrite

(* The ledgers and the history beside rows and handlers.                   *)
LEMMA NextOthers ==
    ASSUME GateInv, [Next]_vars
    PROVE  /\ now' \in 0 .. MAX_TIME
           /\ tx' \in [DOMAIN tx' -> TxType] /\ DOMAIN tx' \subseteq Hash
           /\ claimed' \subseteq Hash /\ recorded' \subseteq Hash
           /\ debt' \in [Quote -> 0 .. MAX_DEFICIT] /\ settled' \subseteq Quote
           /\ wins' \in [Hash -> Nat] /\ delivered' \in [Hash -> 0 .. MANY]
           /\ spent' \subseteq Hash
<1> USE GateAssumption DEF GateInv, TypeOK, ledgers, history
<1>0. \A s \in Slot : req[s].pc # "idle" => req[s].hash \in Hash
  BY DEF Carried
<1>1. now' \in 0 .. MAX_TIME
  <2>1. CASE Tick
    BY <2>1 DEF Tick
  <2>2. CASE UNCHANGED now
    BY <2>2
  <2> QED
    BY <2>1, <2>2, ClockMoves
<1>2. tx' \in [DOMAIN tx' -> TxType] /\ DOMAIN tx' \subseteq Hash
  <2>1. ASSUME NEW h \in Hash, NEW memo \in Quote \union {NoQuote}, NEW payer \in Payer,
               NEW n \in 1 .. MAX_AMOUNT, Pay(h, memo, payer, n)
        PROVE  tx' \in [DOMAIN tx' -> TxType] /\ DOMAIN tx' \subseteq Hash
    BY <2>1 DEF Pay, TxType
  <2>2. CASE UNCHANGED tx
    BY <2>2
  <2> QED
    BY <2>1, <2>2, ChainMoves
<1>3. claimed' \subseteq Hash /\ recorded' \subseteq Hash
  <2>1. ASSUME NEW s \in Slot, ClaimHash(s) \/ VerifyOnChain(s)
        PROVE  claimed' \subseteq Hash /\ recorded' \subseteq Hash
    <3>1. req[s].hash \in Hash
      BY <1>0, <2>1 DEF ClaimHash, VerifyOnChain, At
    <3>2. CASE ClaimHash(s)
      BY <1>0, <3>1, <3>2 DEF ClaimHash
    <3>3. CASE VerifyOnChain(s)
      <4>1. recorded' \in {recorded, recorded \union {req[s].hash}}
        BY <3>3 DEF VerifyOnChain, recordPaymentOnChain
      <4>2. claimed' \in {claimed, claimed \union {req[s].hash}, claimed \ {req[s].hash}}
        BY <3>3 DEF VerifyOnChain
      <4> QED
        BY <1>0, <3>1, <4>1, <4>2
    <3> QED
      BY <2>1, <3>2, <3>3
  <2>2. ASSUME NEW s \in Slot, ReleaseHash(s)
        PROVE  claimed' \subseteq Hash /\ recorded' \subseteq Hash
    BY <2>2 DEF ReleaseHash
  <2>3. ASSUME NEW h \in Hash, LoseClaim(h)
        PROVE  claimed' \subseteq Hash /\ recorded' \subseteq Hash
    BY <2>3 DEF LoseClaim
  <2>4. CASE UNCHANGED <<claimed, recorded>>
    BY <2>4
  <2> QED
    BY <2>1, <2>2, <2>3, <2>4, ClaimsMove
<1>4. debt' \in [Quote -> 0 .. MAX_DEFICIT]
  <2>1. ASSUME NEW s \in Slot, Meter(s)
        PROVE  debt' \in [Quote -> 0 .. MAX_DEFICIT]
    BY <2>1 DEF Meter
  <2>2. CASE UNCHANGED debt
    BY <2>2
  <2> QED
    BY <2>1, <2>2, DebtsMove
<1>5. settled' \subseteq Quote
  <2>1. ASSUME NEW s \in Slot, SettleDebts(s)
        PROVE  settled' \subseteq Quote
    BY <2>1 DEF SettleDebts, OpenDebts
  <2>2. CASE UNCHANGED settled
    BY <2>2
  <2> QED
    BY <2>1, <2>2, DebtsMove
<1>6. /\ wins' \in [Hash -> Nat] /\ delivered' \in [Hash -> 0 .. MANY]
      /\ spent' \subseteq Hash
  <2> DEFINE G == /\ wins' \in [Hash -> Nat] /\ delivered' \in [Hash -> 0 .. MANY]
                  /\ spent' \subseteq Hash
  <2>1. ASSUME NEW s \in Slot, Confirm(s)
        PROVE  G
    <3>1. CASE UNCHANGED history
      BY <3>1
    <3>2. ASSUME NEW q, NEW old, Win(s, q, old)
          PROVE  G
      BY <1>0, <2>1, <3>2 DEF Win, Confirm, At
    <3> QED
      BY <2>1, <3>1, <3>2 DEF Confirm
  <2>2. ASSUME NEW s \in Slot, Forward(s) \/ Reply(s)
        PROVE  G
    <3>1. CASE UNCHANGED history
      BY <3>1
    <3>2. CASE Deliver(req[s].hash)
      <4> DEFINE more == [delivered EXCEPT ![req[s].hash] = IF @ < MANY THEN @ + 1 ELSE @]
      <4>1. \A h \in Hash : (IF delivered[h] < MANY THEN delivered[h] + 1 ELSE delivered[h])
                               \in 0 .. MANY
        OBVIOUS
      <4>2. more \in [Hash -> 0 .. MANY]
        BY <4>1
      <4>3. delivered' = more /\ UNCHANGED <<wins, spent>>
        BY <3>2 DEF Deliver
      <4> HIDE DEF more
      <4> QED
        BY <4>2, <4>3
    <3> QED
      BY <2>2, <3>1, <3>2 DEF Forward, Reply
  <2>3. ASSUME NEW s \in Slot, Die(s)
        PROVE  G
    BY <1>0, <2>3 DEF Die, At
  <2>4. CASE UNCHANGED history
    BY <2>4
  <2> QED
    BY <2>1, <2>2, <2>3, <2>4, HistoryMoves
<1> QED
  BY <1>1, <1>2, <1>3, <1>4, <1>5, <1>6

LEMMA NextInv == GateInv /\ [Next]_vars => GateInv'
<1> SUFFICES ASSUME GateInv, [Next]_vars PROVE GateInv'
  OBVIOUS
<1>1. row' \in [Quote -> RowType] /\ ConsumedRows' /\ RowsKept
  BY NextRows DEF GateInv
<1>2. req' \in [Slot -> ReqType] /\ Carried' /\ Held'
  BY <1>1, NextReq DEF ReqKept
<1>3. TypeOK'
  BY <1>1, <1>2, NextOthers DEF TypeOK
<1> QED
  BY <1>1, <1>2, <1>3 DEF GateInv

(* The rows, the keys, the debts and the handlers' locals always have      *)
(* their types, and every handler past the gate works on a row that exists *)
(* and carries its hash.                                                   *)
THEOREM TypeCorrect == Spec => []TypeOK
<1>1. GateInv => TypeOK
  BY DEF GateInv
<1> QED
  BY <1>1, InitInv, NextInv, PTL DEF Spec

(* The row that has consumed a payment keeps it: no handler, job, retry or *)
(* crash frees its hash or makes it payable again.                         *)
THEOREM BindingPermanentAlways == Spec => BindingPermanent
<1>1. GateInv /\ [Next]_vars => RowsKept
  BY NextRows DEF GateInv
<1> QED
  BY <1>1, InitInv, NextInv, PTL DEF Spec, BindingPermanent, RowsKept

-------------------------------------------------------------------------------

(* A step leaves every row its hash, and a stored quote its time of issue, *)
(* or one handler wins one hash for one row.                               *)
SameHashes ==
    \A q \in Quote :
       /\ row'[q].hash = row[q].hash
       /\ row[q].status # "none" =>
             row'[q].status # "none" /\ row'[q].issued = row[q].issued

WonBy(s, q) ==
    /\ At(s, "confirm")
    /\ req[s].hash \in Hash /\ ~Bound(req[s].hash)
    /\ row[q].hash = NoHash /\ row'[q].hash = req[s].hash
    /\ \/ /\ q = req[s].quote
          /\ row'[q].issued = row[q].issued
       \/ /\ row[q].status = "none"
          /\ row'[q].issued = req[s].issued
    /\ row'[q].status # "none"
    /\ \A p \in Quote : p # q => row'[p] = row[p]
    /\ wins' = [wins EXCEPT ![req[s].hash] = @ + 1]

LEMMA WinFacts ==
    ASSUME GateInv, NEW s \in Slot, At(s, "confirm"), ~Bound(req[s].hash),
           NEW q \in Quote, NEW old \in RowType, row[q].hash = NoHash, Win(s, q, old),
           \/ q = req[s].quote /\ old = row[q]
           \/ row[q].status = "none" /\ old.issued = req[s].issued
    PROVE  WonBy(s, q)
<1> DEFINE new == [old EXCEPT !.status = "confirmed", !.hash = req[s].hash]
<1>1. new.hash = req[s].hash /\ new.status # "none" /\ new.issued = old.issued
  BY DEF RowType
<1>2. row' = [row EXCEPT ![q] = new] /\ wins' = [wins EXCEPT ![req[s].hash] = @ + 1]
  BY DEF Win
<1> HIDE DEF new
<1>3. row'[q] = new /\ \A p \in Quote : p # q => row'[p] = row[p]
  BY <1>2 DEF GateInv, TypeOK
<1>4. req[s].hash \in Hash
  BY DEF GateInv, Carried, At
<1> QED
  BY <1>1, <1>2, <1>3, <1>4 DEF WonBy

LEMMA NextHashes ==
    GateInv /\ [Next]_vars
       => \/ SameHashes /\ UNCHANGED wins
          \/ \E s \in Slot, q \in Quote : WonBy(s, q)
<1> DEFINE G == \/ SameHashes /\ UNCHANGED wins
                \/ \E s \in Slot, q \in Quote : WonBy(s, q)
<1> SUFFICES ASSUME GateInv, [Next]_vars PROVE G
  OBVIOUS
<1>0. \A q \in Quote : row[q] \in RowType
  BY DEF GateInv, TypeOK
<1>u. ASSUME UNCHANGED <<row, wins>> PROVE G
  BY <1>u DEF SameHashes
<1>1. ASSUME NEW q \in Quote, NEW route \in Route, IssueQuote(q, route) PROVE G
  <2>1. row[q].status = "none" /\ row[q].hash = NoHash /\ Pending(route, now).hash = NoHash
    BY <1>1 DEF IssueQuote, Unused, GateInv, ConsumedRows, Pending
  <2>2. /\ row' = [row EXCEPT ![q] = Pending(route, now)] /\ UNCHANGED wins
    BY <1>1 DEF IssueQuote, history
  <2> QED
    BY <2>1, <2>2 DEF SameHashes, GateInv, TypeOK
<1>2. ASSUME ExpireStale PROVE G
  <2>1. \A q \in Quote :
           row'[q] = row[q] \/ row'[q] = [row[q] EXCEPT !.status = "expired"]
    BY <1>2 DEF ExpireStale
  <2>2. UNCHANGED wins
    BY <1>2 DEF ExpireStale, history
  <2> QED
    BY <1>0, <2>1, <2>2 DEF SameHashes, RowType
<1>3. ASSUME NEW s \in Slot, Confirm(s) PROVE G
  <2>1. CASE UNCHANGED <<row, history>>
    BY <1>u, <2>1 DEF history
  <2>2. ASSUME req[s].quote # NoQuote, row[req[s].quote].hash = NoHash,
               ~Bound(req[s].hash), Win(s, req[s].quote, row[req[s].quote])
        PROVE  G
    <3>1. req[s].quote \in Quote
      BY <2>2 DEF GateInv, TypeOK, ReqType
    <3>2. WonBy(s, req[s].quote)
      BY <1>0, <1>3, <2>2, <3>1, WinFacts DEF Confirm
    <3> QED
      BY <3>1, <3>2
  <2>3. ASSUME ~Bound(req[s].hash), NEW new \in Unused,
               Win(s, new, Pending(req[s].route, req[s].issued))
        PROVE  G
    <3>1. new \in Quote /\ row[new].status = "none" /\ row[new].hash = NoHash
      BY <2>3 DEF Unused, GateInv, ConsumedRows
    <3>2. /\ Pending(req[s].route, req[s].issued) \in RowType
          /\ Pending(req[s].route, req[s].issued).issued = req[s].issued
      BY DEF Pending, RowType, GateInv, TypeOK, ReqType
    <3>3. WonBy(s, new)
      BY <1>3, <2>3, <3>1, <3>2, WinFacts DEF Confirm
    <3> QED
      BY <3>1, <3>3
  <2> QED
    BY <1>3, <2>1, <2>2, <2>3 DEF Confirm
<1>4. ASSUME NEW s \in Slot, Restore(s) PROVE G
  <2>1. \A q \in Quote :
           row'[q] = row[q] \/ row'[q] = [row[q] EXCEPT !.status = "confirmed"]
    BY <1>4 DEF Restore, Restored, GateInv, TypeOK
  <2>2. UNCHANGED wins
    BY <1>4 DEF Restore, history
  <2> QED
    BY <1>0, <2>1, <2>2 DEF SameHashes, RowType
<1>5. ASSUME NEW s \in Slot, MarkUpstreamFailure(s) PROVE G
  <2>1. \A q \in Quote :
           row'[q] = row[q] \/ row'[q] = [row[q] EXCEPT !.status = "upstream_failed"]
    BY <1>5 DEF MarkUpstreamFailure, Marked
  <2>2. UNCHANGED wins
    BY <1>5 DEF MarkUpstreamFailure, history
  <2> QED
    BY <1>0, <2>1, <2>2 DEF SameHashes, RowType
<1>6. ASSUME NEW s \in Slot,
             \/ Lookup(s) \/ Resolve(s) \/ ClaimHash(s) \/ VerifyOnChain(s)
             \/ ReadDebt(s) \/ SettleDebts(s) \/ Reread(s) \/ Forward(s)
             \/ Meter(s) \/ Reply(s) \/ ReleaseHash(s) \/ Throw(s) \/ Die(s)
      PROVE  UNCHANGED <<row, wins>>
  BY <1>6 DEF Lookup, Resolve, ClaimHash, VerifyOnChain, ReadDebt, SettleDebts, Reread,
              Forward, Meter, Reply, ReleaseHash, Throw, Die, Deliver, ledgers, history
<1>7. ASSUME \/ Tick
             \/ \E h \in Hash, memo \in Quote \union {NoQuote}, payer \in Payer,
                   n \in 1 .. MAX_AMOUNT : Pay(h, memo, payer, n)
             \/ \E h \in Hash : LoseClaim(h)
             \/ \E s \in Slot, h \in Hash, route \in Route,
                   header \in Quote \union {NoQuote} : StartChat(s, h, route, header)
             \/ \E s \in Slot, h \in Hash, q \in Quote : StartVerify(s, h, q)
      PROVE  UNCHANGED <<row, wins>>
  BY <1>7 DEF Tick, Pay, LoseClaim, StartChat, StartVerify, ledgers, history
<1>8. CASE UNCHANGED vars
  BY <1>8, <1>u DEF vars, ledgers, history
<1> QED
  BY <1>u, <1>1, <1>2, <1>3, <1>4, <1>5, <1>6, <1>7, <1>8 DEF Next, Handle

(* Who won a hash is told by the rows: none has it, or exactly one.        *)
LEMMA InitClaimed == Init => ClaimedOnce
<1> SUFFICES ASSUME Init, NEW h \in Hash
             PROVE  wins[h] <= 1 /\ wins[h] = Cardinality({q \in Quote : row[q].hash = h})
  BY DEF ClaimedOnce
<1>1. {q \in Quote : row[q].hash = h} = {}
  BY Names DEF Init, NoRow
<1>2. Cardinality({}) = 0
  BY FS_EmptySet
<1>3. wins[h] = 0
  BY DEF Init
<1> QED
  BY <1>1, <1>2, <1>3

LEMMA NextClaimed == GateInv /\ ClaimedOnce /\ [Next]_vars => ClaimedOnce'
<1> SUFFICES ASSUME GateInv, ClaimedOnce, [Next]_vars, NEW h \in Hash
             PROVE  wins'[h] <= 1 /\ wins'[h] = Cardinality({q \in Quote : row'[q].hash = h})
  BY DEF ClaimedOnce
<1>0. wins \in [Hash -> Nat]
  BY DEF GateInv, TypeOK
<1>1. CASE SameHashes /\ UNCHANGED wins
  <2>1. {q \in Quote : row'[q].hash = h} = {q \in Quote : row[q].hash = h}
    BY <1>1 DEF SameHashes
  <2> QED
    BY <1>1, <2>1 DEF ClaimedOnce
<1>2. ASSUME NEW s \in Slot, NEW q \in Quote, WonBy(s, q)
      PROVE  wins'[h] <= 1 /\ wins'[h] = Cardinality({p \in Quote : row'[p].hash = h})
  <2>1. CASE h = req[s].hash
    <3>1. {p \in Quote : row[p].hash = h} = {}
      BY <1>2, <2>1 DEF WonBy, Bound
    <3>2. {p \in Quote : row'[p].hash = h} = {q}
      BY <1>2, <2>1 DEF WonBy, Bound
    <3>3. wins[h] = 0
      BY <3>1, FS_EmptySet DEF ClaimedOnce
    <3>4. wins'[h] = 1
      BY <1>0, <1>2, <2>1, <3>3 DEF WonBy
    <3>5. Cardinality({q}) = 1
      BY FS_Singleton
    <3> QED
      BY <3>2, <3>4, <3>5
  <2>2. CASE h # req[s].hash
    <3>1. {p \in Quote : row'[p].hash = h} = {p \in Quote : row[p].hash = h}
      BY <1>2, <2>2, Names DEF WonBy
    <3>2. wins'[h] = wins[h]
      BY <1>0, <1>2, <2>2 DEF WonBy
    <3> QED
      BY <3>1, <3>2 DEF ClaimedOnce
  <2> QED
    BY <2>1, <2>2
<1> QED
  BY <1>1, <1>2, NextHashes

(* A hash is claimed at most once, ever, and by the one row that carries   *)
(* it, whatever Redis, the contract, crashes and database failures do.     *)
THEOREM ClaimedOnceAlways == Spec => []ClaimedOnce
BY InitInv, NextInv, InitClaimed, NextClaimed, PTL DEF Spec

-------------------------------------------------------------------------------

(* A payment is checked once, by VerifyOnChain, against the time of issue  *)
(* the handler has read; it stays paid because the chain forgets nothing,  *)
(* and belongs to the row because a stored quote keeps its time of issue.  *)
Checked == {"debt", "settle", "confirm"}
Verifying == {"claim", "verify"} \union Checked

Verified == \A s \in Slot : req[s].pc \in Checked => WasPaid(req[s].hash, req[s].issued)

Quoted ==
    \A s \in Slot : req[s].pc \in Verifying /\ req[s].quote # NoQuote =>
       /\ row[req[s].quote].status # "none"
       /\ row[req[s].quote].issued = req[s].issued

RowsPaid == \A q \in Quote : row[q].hash # NoHash => WasPaid(row[q].hash, row[q].issued)

AdmissionInv == Verified /\ Quoted /\ RowsPaid

StaysPaid(h, issued) ==
    /\ h \in DOMAIN tx'
    /\ tx'[h].amount >= Deposit
    /\ tx'[h].time \in issued .. issued + QUOTE_EXPIRY

LEMMA PaidStays ==
    ASSUME GateInv, [Next]_vars, NEW h, NEW issued, WasPaid(h, issued)
    PROVE  StaysPaid(h, issued)
<1>1. \A g \in DOMAIN tx : g \in DOMAIN tx' /\ tx'[g] = tx[g]
  <2>1. ASSUME NEW g \in Hash, NEW memo \in Quote \union {NoQuote}, NEW payer \in Payer,
               NEW n \in 1 .. MAX_AMOUNT, Pay(g, memo, payer, n)
        PROVE  \A k \in DOMAIN tx : k \in DOMAIN tx' /\ tx'[k] = tx[k]
    BY <2>1 DEF Pay
  <2>2. CASE UNCHANGED tx
    BY <2>2
  <2> QED
    BY <2>1, <2>2, ChainMoves
<1> QED
  BY <1>1 DEF WasPaid, StaysPaid

(* What a step leaves a handler with: nothing to do with a payment that is *)
(* being verified; a stored quote and its time of issue, or a new one; or  *)
(* what it had, and past VerifyOnChain only with a payment that is good.   *)
SameRequest(t) ==
    /\ req'[t].hash = req[t].hash
    /\ req'[t].quote = req[t].quote
    /\ req'[t].issued = req[t].issued

Proceeds(t) ==
    \/ req'[t].pc \notin Verifying
    \/ /\ req'[t].pc = "claim"
       /\ req'[t].quote # NoQuote =>
             /\ row[req'[t].quote].status # "none"
             /\ row[req'[t].quote].issued = req'[t].issued
    \/ /\ SameRequest(t)
       /\ req[t].pc \in Verifying
       /\ req'[t].pc \in Checked =>
             req[t].pc \in Checked \/ WasPaid(req[t].hash, req[t].issued)

LEMMA SatisfiesIsPaid ==
    ASSUME TypeOK, NEW h, NEW route \in Route \union {NoQuote}, NEW issued \in Nat,
           Satisfies(h, route, issued)
    PROVE  WasPaid(h, issued)
<1>1. tx[h].amount \in Nat /\ tx[h].time \in Nat
  BY GateAssumption DEF TypeOK, TxType, Satisfies
<1> QED
  BY <1>1, GateAssumption DEF Satisfies, WasPaid, Deposit

LEMMA MoveProceeds ==
    ASSUME NEW s \in Slot, \A t \in Slot : t # s => req'[t] = req[t], Proceeds(s)
    PROVE  \A t \in Slot : Proceeds(t)
<1> SUFFICES ASSUME NEW t \in Slot, t # s PROVE Proceeds(t)
  OBVIOUS
<1>1. req'[t] = req[t]
  OBVIOUS
<1> QED
  BY <1>1 DEF Proceeds, SameRequest

LEMMA FinishProceeds ==
    ASSUME TypeOK, NEW s \in Slot, Finish(s)
    PROVE  \A t \in Slot : Proceeds(t)
<1>1. req'[s] = Idle /\ \A t \in Slot : t # s => req'[t] = req[t]
  BY FinishMoves DEF TypeOK
<1>2. Proceeds(s)
  BY <1>1 DEF Proceeds, Verifying, Checked, Idle
<1> QED
  BY <1>1, <1>2, MoveProceeds

LEMMA GotoProceeds ==
    ASSUME TypeOK, NEW s \in Slot,
           NEW pc \in Fallible \union {"idle", "verify", "forward", "mark", "release"},
           Goto(s, pc),
           pc \in Verifying => req[s].pc \in Verifying,
           pc \in Checked => req[s].pc \in Checked \/ WasPaid(req[s].hash, req[s].issued)
    PROVE  \A t \in Slot : Proceeds(t)
<1>1. req[s] \in ReqType
  BY DEF TypeOK
<1>2. req'[s] = [req[s] EXCEPT !.pc = pc] /\ \A t \in Slot : t # s => req'[t] = req[t]
  BY GotoMoves DEF TypeOK
<1>3. req'[s].pc = pc /\ SameRequest(s)
  BY <1>1, <1>2 DEF ReqType, SameRequest
<1>4. Proceeds(s)
  BY <1>3 DEF Proceeds
<1> QED
  BY <1>2, <1>4, MoveProceeds

LEMMA RefuseProceeds ==
    ASSUME TypeOK, NEW s \in Slot, Refuse(s)
    PROVE  \A t \in Slot : Proceeds(t)
BY FinishProceeds, GotoProceeds DEF Refuse, Verifying, Checked

LEMMA NextProceeds ==
    ASSUME GateInv, [Next]_vars
    PROVE  \A t \in Slot : Proceeds(t)
<1> DEFINE G == \A t \in Slot : Proceeds(t)
<1>0. TypeOK /\ (\A s \in Slot : req[s] \in ReqType) /\ \A q \in Quote : row[q] \in RowType
  BY DEF GateInv, TypeOK
<1>u. ASSUME UNCHANGED req PROVE G
  BY <1>u DEF Proceeds, SameRequest
<1>1. ASSUME NEW s \in Slot, NEW h \in Hash, NEW route \in Route,
             NEW header \in Quote \union {NoQuote}, StartChat(s, h, route, header)
      PROVE  G
  <2>1. /\ req'[s].pc = "lookup"
        /\ \A t \in Slot : t # s => req'[t] = req[t]
    BY <1>0, <1>1 DEF StartChat, Idle, TypeOK
  <2> QED
    BY <2>1, MoveProceeds DEF Proceeds, Verifying, Checked
<1>2. ASSUME NEW s \in Slot, NEW h \in Hash, NEW q \in Quote, StartVerify(s, h, q)
      PROVE  G
  <2>1. /\ req'[s].pc = "claim" /\ req'[s].quote = q /\ req'[s].issued = row[q].issued
        /\ \A t \in Slot : t # s => req'[t] = req[t]
    BY <1>0, <1>2 DEF StartVerify, Idle, TypeOK
  <2>2. row[q].status # "none"
    BY <1>2 DEF StartVerify
  <2> QED
    BY <2>1, <2>2, MoveProceeds DEF Proceeds
<1>3. ASSUME NEW s \in Slot, Lookup(s) PROVE G
  <2>1. ASSUME req' = [req EXCEPT ![s] = [@ EXCEPT !.pc = "reread", !.header = NoQuote]]
        PROVE  G
    <3>1. req'[s].pc = "reread" /\ \A t \in Slot : t # s => req'[t] = req[t]
      BY <1>0, <2>1 DEF TypeOK, ReqType
    <3> QED
      BY <3>1, MoveProceeds DEF Proceeds, Verifying, Checked
  <2>2. ASSUME Goto(s, "resolve") PROVE G
    BY <1>0, <2>2, GotoProceeds DEF Fallible, Verifying, Checked
  <2> QED
    BY <1>0, <1>3, <2>1, <2>2, FinishProceeds DEF Lookup
<1>4. ASSUME NEW s \in Slot, Resolve(s) PROVE G
  <2>1. ASSUME NEW q \in Resolved(s),
               req' = [req EXCEPT ![s] = [@ EXCEPT
                         !.pc = "claim", !.header = NoQuote, !.quote = q,
                         !.issued = IF q = NoQuote THEN now ELSE row[q].issued]]
        PROVE  G
    <3>1. q # NoQuote => row[q].status = "pending"
      BY DEF Resolved
    <3>2. /\ req'[s].pc = "claim" /\ req'[s].quote = q
          /\ q # NoQuote => req'[s].issued = row[q].issued
          /\ \A t \in Slot : t # s => req'[t] = req[t]
      BY <1>0, <2>1 DEF TypeOK, ReqType
    <3> QED
      BY <3>1, <3>2, MoveProceeds DEF Proceeds
  <2> QED
    BY <1>0, <1>4, <2>1, FinishProceeds DEF Resolve
<1>5. ASSUME NEW s \in Slot, ClaimHash(s) PROVE G
  <2>1. ASSUME Goto(s, "verify") PROVE G
    BY <1>0, <1>5, <2>1, GotoProceeds DEF ClaimHash, At, Verifying, Checked
  <2> QED
    BY <1>0, <1>5, <2>1, RefuseProceeds DEF ClaimHash
<1>6. ASSUME NEW s \in Slot, VerifyOnChain(s) PROVE G
  <2>1. ASSUME Satisfies(req[s].hash, req[s].route, req[s].issued),
               NEW pc \in {"debt", "confirm"}, Goto(s, pc)
        PROVE  G
    <3>1. WasPaid(req[s].hash, req[s].issued)
      BY <1>0, <2>1, SatisfiesIsPaid DEF ReqType
    <3>2. req[s].pc \in Verifying
      BY <1>6 DEF VerifyOnChain, At, Verifying
    <3>3. pc \in Fallible
      BY DEF Fallible
    <3> QED
      BY <1>0, <2>1, <3>1, <3>2, <3>3, GotoProceeds
  <2> QED
    BY <1>0, <1>6, <2>1, RefuseProceeds DEF VerifyOnChain
<1>7. ASSUME NEW s \in Slot, ReadDebt(s) \/ SettleDebts(s) PROVE G
  <2>1. req[s].pc \in Checked
    BY <1>7 DEF ReadDebt, SettleDebts, At, Checked
  <2>2. ASSUME NEW pc \in {"settle", "confirm"}, Goto(s, pc) PROVE G
    <3>1. pc \in Fallible /\ req[s].pc \in Verifying
      BY <2>1 DEF Fallible, Verifying
    <3> QED
      BY <1>0, <2>1, <2>2, <3>1, GotoProceeds
  <2> QED
    BY <1>0, <1>7, <2>2, RefuseProceeds DEF ReadDebt, SettleDebts
<1>8. ASSUME NEW s \in Slot, NEW pc \in {"reread", "restore", "meter", "reply", "mark",
                                         "release"}, Goto(s, pc)
      PROVE  G
  <2>1. pc \in Fallible \union {"mark", "release"} /\ pc \notin Verifying
    BY DEF Fallible, Verifying, Checked
  <2> QED
    BY <1>0, <1>8, <2>1, GotoProceeds DEF Verifying
<1>9. ASSUME NEW s \in Slot, Confirm(s) PROVE G
  BY <1>0, <1>8, <1>9, FinishProceeds DEF Confirm, Win
<1>10. ASSUME NEW s \in Slot, Reread(s) PROVE G
  <2>1. req'[s].pc = "forward" /\ \A t \in Slot : t # s => req'[t] = req[t]
    BY <1>0, <1>10 DEF Reread, TypeOK, ReqType
  <2> QED
    BY <2>1, MoveProceeds DEF Proceeds, Verifying, Checked
<1>11. ASSUME NEW s \in Slot, Forward(s) PROVE G
  <2>1. ASSUME req' = [req EXCEPT ![s] = [@ EXCEPT !.pc = "meter", !.stream = TRUE]]
        PROVE  G
    <3>1. req'[s].pc = "meter" /\ \A t \in Slot : t # s => req'[t] = req[t]
      BY <1>0, <2>1 DEF TypeOK, ReqType
    <3> QED
      BY <3>1, MoveProceeds DEF Proceeds, Verifying, Checked
  <2> QED
    BY <1>8, <1>11, <2>1 DEF Forward
<1>12. ASSUME NEW s \in Slot, Meter(s) PROVE G
  <2> DEFINE next == IF ~req[s].stream THEN [req[s] EXCEPT !.pc = "reply"]
                     ELSE IF req[s].retry THEN [req[s] EXCEPT !.pc = "restore"]
                     ELSE Idle
  <2>1. next.pc \notin Verifying
    BY <1>0 DEF ReqType, Idle, Verifying, Checked
  <2>2. /\ req'[s] = next
        /\ \A t \in Slot : t # s => \/ req'[t] = req[t]
                                    \/ \E m : req'[t] = [req[t] EXCEPT !.missed = m]
    BY <1>12 DEF Meter
  <2> HIDE DEF next
  <2>3. \A t \in Slot : t # s => SameRequest(t) /\ req'[t].pc = req[t].pc
    BY <1>0, <2>2 DEF ReqType, SameRequest
  <2>4. ASSUME NEW t \in Slot, t # s PROVE Proceeds(t)
    <3>1. SameRequest(t) /\ req'[t].pc = req[t].pc
      BY <2>3, <2>4
    <3> QED
      BY <3>1 DEF Proceeds
  <2>5. Proceeds(s)
    BY <2>1, <2>2 DEF Proceeds
  <2> QED
    BY <2>4, <2>5
<1>13. ASSUME NEW s \in Slot, Restore(s) \/ MarkUpstreamFailure(s) PROVE G
  BY <1>0, <1>8, <1>13, FinishProceeds DEF Restore, MarkUpstreamFailure
<1>14. ASSUME NEW s \in Slot, Reply(s) \/ ReleaseHash(s) \/ Throw(s) \/ Die(s) PROVE G
  BY <1>0, <1>8, <1>14, FinishProceeds DEF Reply, ReleaseHash, Throw, Die
<1>15. ASSUME \/ Tick \/ ExpireStale
              \/ \E q \in Quote, route \in Route : IssueQuote(q, route)
              \/ \E h \in Hash, memo \in Quote \union {NoQuote}, payer \in Payer,
                    n \in 1 .. MAX_AMOUNT : Pay(h, memo, payer, n)
              \/ \E h \in Hash : LoseClaim(h)
       PROVE  UNCHANGED req
  BY <1>15 DEF Tick, ExpireStale, IssueQuote, Pay, LoseClaim
<1>16. CASE UNCHANGED vars
  BY <1>16, <1>u DEF vars
<1> QED
  BY <1>u, <1>1, <1>2, <1>3, <1>4, <1>5, <1>6, <1>7, <1>9, <1>10, <1>11, <1>12, <1>13,
     <1>14, <1>15, <1>16 DEF Next, Handle

LEMMA InitAdmission == Init => AdmissionInv
<1> SUFFICES ASSUME Init PROVE AdmissionInv
  OBVIOUS
<1>1. \A s \in Slot : req[s].pc = "idle"
  BY DEF Init, Idle
<1>2. \A q \in Quote : row[q].hash = NoHash
  BY DEF Init, NoRow
<1> QED
  BY <1>1, <1>2 DEF AdmissionInv, Verified, Quoted, RowsPaid, Verifying, Checked

LEMMA NextAdmission == GateInv /\ AdmissionInv /\ [Next]_vars => AdmissionInv'
<1> SUFFICES ASSUME GateInv, AdmissionInv, [Next]_vars PROVE AdmissionInv'
  OBVIOUS
<1>0. \A s \in Slot : /\ req[s].quote \in Quote \union {NoQuote}
                      /\ req'[s].quote \in Quote \union {NoQuote}
  BY NextInv DEF GateInv, TypeOK, ReqType
<1>1. ASSUME NEW q \in Quote, row[q].status # "none"
      PROVE  row'[q].status # "none" /\ row'[q].issued = row[q].issued
  <2>1. CASE SameHashes
    BY <1>1, <2>1 DEF SameHashes
  <2>2. ASSUME NEW s \in Slot, NEW p \in Quote, WonBy(s, p)
        PROVE  row'[q].status # "none" /\ row'[q].issued = row[q].issued
    BY <1>1, <2>2 DEF WonBy
  <2> QED
    BY <2>1, <2>2, NextHashes
<1>2. ASSUME NEW s \in Slot, req'[s].pc \in Checked
      PROVE  StaysPaid(req'[s].hash, req'[s].issued)
  <2>1. /\ SameRequest(s)
        /\ req[s].pc \in Checked \/ WasPaid(req[s].hash, req[s].issued)
    BY <1>2, NextProceeds DEF Proceeds, Verifying, Checked
  <2>2. WasPaid(req[s].hash, req[s].issued)
    BY <2>1 DEF AdmissionInv, Verified
  <2>3. StaysPaid(req[s].hash, req[s].issued)
    BY <2>2, PaidStays
  <2> QED
    BY <2>1, <2>3 DEF SameRequest
<1>3. ASSUME NEW s \in Slot, req'[s].pc \in Verifying, req'[s].quote # NoQuote
      PROVE  /\ row'[req'[s].quote].status # "none"
             /\ row'[req'[s].quote].issued = req'[s].issued
  <2>1. /\ req'[s].quote \in Quote
        /\ row[req'[s].quote].status # "none"
        /\ row[req'[s].quote].issued = req'[s].issued
    BY <1>0, <1>3, NextProceeds DEF Proceeds, SameRequest, AdmissionInv, Quoted, Verifying,
       Checked
  <2> QED
    BY <1>1, <2>1
<1>4. ASSUME NEW q \in Quote, row'[q].hash # NoHash
      PROVE  StaysPaid(row'[q].hash, row'[q].issued)
  <2>1. CASE row[q].hash # NoHash /\ row'[q].hash = row[q].hash
    <3>1. WasPaid(row[q].hash, row[q].issued) /\ row[q].status # "none"
      BY <2>1 DEF AdmissionInv, RowsPaid, GateInv, ConsumedRows
    <3>2. StaysPaid(row[q].hash, row[q].issued)
      BY <3>1, PaidStays
    <3> QED
      BY <1>1, <2>1, <3>1, <3>2
  <2>2. ASSUME NEW s \in Slot, WonBy(s, q)
        PROVE  StaysPaid(row'[q].hash, row'[q].issued)
    <3>1. WasPaid(req[s].hash, req[s].issued)
      BY <2>2 DEF WonBy, At, AdmissionInv, Verified, Checked
    <3>2. row'[q].hash = req[s].hash
      BY <2>2 DEF WonBy
    <3>3. row'[q].issued = req[s].issued
      BY <2>2, Names DEF WonBy, At, AdmissionInv, Quoted, Verifying, Checked
    <3>4. StaysPaid(req[s].hash, req[s].issued)
      BY <3>1, PaidStays
    <3> QED
      BY <3>2, <3>3, <3>4
  <2>3. ASSUME NEW s \in Slot, NEW p \in Quote, p # q, WonBy(s, p)
        PROVE  row[q].hash # NoHash /\ row'[q].hash = row[q].hash
    BY <1>4, <2>3 DEF WonBy
  <2>4. CASE SameHashes
    BY <1>4, <2>1, <2>4 DEF SameHashes
  <2> QED
    BY <2>1, <2>2, <2>3, <2>4, NextHashes
<1> QED
  BY <1>2, <1>3, <1>4 DEF AdmissionInv, Verified, Quoted, RowsPaid, WasPaid, StaysPaid

(* No request takes a row, and no row is taken, without a payment on the   *)
(* chain that was made in the window of its quote and covers the deposit.  *)
THEOREM AdmissionWasPaidAlways == Spec => []AdmissionWasPaid
<1>1. AdmissionInv => AdmissionWasPaid
  BY DEF AdmissionInv, Verified, RowsPaid, AdmissionWasPaid, At, Checked
<1> QED
  BY <1>1, InitInv, NextInv, InitAdmission, NextAdmission, PTL DEF Spec

-------------------------------------------------------------------------------

(* A confirmed payment is answered or in hand.  A handler holds the hash   *)
(* while it serves, and lets go of it only after a response, by marking    *)
(* its row for a free retry, or by dying.  That needs, of the handlers'    *)
(* locals: only chat requests serve, a stream has reached the client, and  *)
(* a handler at work names the row that carries its hash.                  *)
Unserved == {"claim", "verify", "confirm"}
Upstream == {"forward", "restore", "meter", "reply"}

(* Deliveries are counted up to MANY: where that is 0, nothing is claimed. *)
Reached(h) == MANY = 0 \/ delivered[h] > 0

Chats == \A s \in Slot : req[s].kind = "verify" => req[s].pc \in Unserved

Streamed ==
    \A s \in Slot : req[s].stream => req[s].hash \in Hash /\ Reached(req[s].hash)

Named ==
    \A s \in Slot : req[s].pc \in Upstream => row[req[s].quote].hash = req[s].hash

Answered(h) ==
    \/ Reached(h)
    \/ h \in spent
    \/ \E s \in Slot : req[s].hash = h /\ req[s].pc \in Serving

ConfirmedAnswered ==
    \A q \in Quote :
       row[q].status = "confirmed" => row[q].hash \in Hash /\ Answered(row[q].hash)

ServedInv == Chats /\ Streamed /\ Named /\ ConfirmedAnswered

(* What the handler that moves owes the others: a hash it lets go of is    *)
(* answered, or no row of it stays confirmed; a row it confirms has its    *)
(* own hash, and that is answered or in its hand.                          *)
Reaches(h) == MANY = 0 \/ delivered'[h] > 0
Bought(h) == Reaches(h) \/ h \in spent'

InHand(s) == req'[s].pc \in Serving /\ req'[s].hash = req[s].hash

StandsBy(t) ==
    /\ req'[t].pc = req[t].pc /\ req'[t].hash = req[t].hash
    /\ req'[t].quote = req[t].quote
    /\ req'[t].kind = req[t].kind /\ req'[t].stream = req[t].stream

LocalsOK(s) ==
    /\ req'[s].kind = "verify" => req'[s].pc \in Unserved
    /\ req'[s].stream => req'[s].hash \in Hash /\ Reaches(req'[s].hash)
    /\ req'[s].pc \in Upstream => row'[req'[s].quote].hash = req'[s].hash

LetsGo(s) ==
    req[s].pc \in Serving =>
       \/ InHand(s) \/ Bought(req[s].hash)
       \/ \A q \in Quote : row'[q].hash = req[s].hash => row'[q].status # "confirmed"

Confirms(s) ==
    \A q \in Quote : row'[q].status = "confirmed" =>
       \/ row[q].status = "confirmed" /\ row'[q].hash = row[q].hash
       \/ /\ row'[q].hash = req[s].hash /\ req[s].hash \in Hash
          /\ InHand(s) \/ Bought(req[s].hash)

Hands(s) ==
    /\ \A t \in Slot : t # s => StandsBy(t)
    /\ LocalsOK(s) /\ LetsGo(s) /\ Confirms(s)

HistoryGrows ==
    /\ \A h \in Hash : Reached(h) => Reaches(h)
    /\ spent \subseteq spent'

LEMMA SameRowsConfirm == ASSUME UNCHANGED row, NEW s PROVE Confirms(s)
BY DEF Confirms

LEMMA NextHistory == GateInv /\ [Next]_vars => HistoryGrows
<1> SUFFICES ASSUME GateInv, [Next]_vars PROVE HistoryGrows
  OBVIOUS
<1>0. delivered \in [Hash -> 0 .. MANY] /\ MANY \in Nat
  BY GateAssumption DEF GateInv, TypeOK
<1>1. ASSUME NEW g, Deliver(g) PROVE HistoryGrows
  <2>1. /\ delivered' = [delivered EXCEPT ![g] = IF @ < MANY THEN @ + 1 ELSE @]
        /\ spent' = spent
    BY <1>1 DEF Deliver
  <2>2. ASSUME NEW h \in Hash, Reached(h) PROVE Reaches(h)
    BY <1>0, <2>1, <2>2 DEF Reached, Reaches
  <2> QED
    BY <2>1, <2>2 DEF HistoryGrows
<1>2. CASE UNCHANGED history
  BY <1>2 DEF history, HistoryGrows, Reached, Reaches
<1>3. ASSUME NEW s \in Slot, Confirm(s) PROVE HistoryGrows
  <2>1. ASSUME NEW q, NEW old, Win(s, q, old) PROVE HistoryGrows
    BY <2>1 DEF Win, HistoryGrows, Reached, Reaches
  <2> QED
    BY <1>2, <1>3, <2>1 DEF Confirm
<1>4. ASSUME NEW s \in Slot, Forward(s) \/ Reply(s) PROVE HistoryGrows
  BY <1>1, <1>2, <1>4 DEF Forward, Reply
<1>5. ASSUME NEW s \in Slot, Die(s) PROVE HistoryGrows
  BY <1>5 DEF Die, HistoryGrows, Reached, Reaches
<1> QED
  BY <1>2, <1>3, <1>4, <1>5, HistoryMoves

(* If the handler that moves keeps its side, the invariant survives.       *)
LEMMA HandsKeep ==
    ASSUME GateInv, ServedInv, RowsKept, HistoryGrows, NEW s \in Slot, Hands(s)
    PROVE  ServedInv'
<1>0. /\ \A t \in Slot : req[t].pc # "idle" => req[t].hash \in Hash
      /\ \A t \in Slot : req[t].pc \in Upstream => req[t].quote \in Quote
  BY DEF GateInv, Carried, Held, Upstream
<1>1. ASSUME NEW t \in Slot PROVE LocalsOK(t)
  <2>1. CASE t = s
    BY <2>1 DEF Hands
  <2>2. CASE t # s
    <3>1. StandsBy(t)
      BY <2>2 DEF Hands
    <3>2. req[t].kind = "verify" => req[t].pc \in Unserved
      BY DEF ServedInv, Chats
    <3>3. req[t].stream => req[t].hash \in Hash /\ Reaches(req[t].hash)
      BY DEF ServedInv, Streamed, HistoryGrows
    <3>4. req[t].pc \in Upstream => row'[req[t].quote].hash = req[t].hash
      <4>1. req[t].pc \in Upstream => req[t].hash \in Hash /\ row[req[t].quote].hash = req[t].hash
        BY <1>0 DEF ServedInv, Named, Upstream
      <4> QED
        BY <1>0, <4>1, Names DEF RowsKept
    <3> QED
      BY <3>1, <3>2, <3>3, <3>4 DEF StandsBy, LocalsOK
  <2> QED
    BY <2>1, <2>2
<1> DEFINE StaysAnswered(h) ==
             Bought(h) \/ \E t \in Slot : req'[t].hash = h /\ req'[t].pc \in Serving
<1>2. ASSUME NEW q \in Quote, row'[q].status = "confirmed"
      PROVE  row'[q].hash \in Hash /\ StaysAnswered(row'[q].hash)
  <2>1. CASE row'[q].hash = req[s].hash /\ req[s].hash \in Hash
             /\ (InHand(s) \/ Bought(req[s].hash))
    BY <2>1 DEF InHand
  <2>2. CASE row[q].status = "confirmed" /\ row'[q].hash = row[q].hash
    <3> DEFINE h == row[q].hash
    <3>1. h \in Hash /\ Answered(h) /\ row'[q].hash = h
      BY <2>2 DEF ServedInv, ConfirmedAnswered
    <3> HIDE DEF h
    <3>2. CASE Reached(h) \/ h \in spent
      BY <3>1, <3>2 DEF HistoryGrows, Bought
    <3>3. ASSUME NEW t \in Slot, req[t].hash = h, req[t].pc \in Serving, t # s
          PROVE  StaysAnswered(h)
      <4>1. StandsBy(t)
        BY <3>3 DEF Hands
      <4> QED
        BY <3>3, <4>1 DEF StandsBy
    <3>4. CASE req[s].hash = h /\ req[s].pc \in Serving
      <4>1. InHand(s) \/ Bought(h)
        BY <1>2, <3>1, <3>4 DEF Hands, LetsGo
      <4> QED
        BY <3>1, <3>4, <4>1 DEF InHand
    <3> QED
      BY <3>1, <3>2, <3>3, <3>4 DEF Answered
  <2> QED
    BY <1>2, <2>1, <2>2 DEF Hands, Confirms
<1>3. Chats' /\ Streamed' /\ Named'
  BY <1>1 DEF LocalsOK, Chats, Streamed, Named, Reached, Reaches
<1>4. ConfirmedAnswered'
  BY <1>2 DEF ConfirmedAnswered, Answered, Bought, Reached, Reaches
<1> QED
  BY <1>3, <1>4 DEF ServedInv

(* A step of nobody's handler confirms no row.                             *)
LEMMA ServedStands ==
    ASSUME GateInv, ServedInv, RowsKept, UNCHANGED <<req, history>>,
           \A q \in Quote : row'[q].status = "confirmed" => row'[q] = row[q]
    PROVE  ServedInv'
<1>1. Chats' /\ Streamed'
  BY DEF ServedInv, Chats, Streamed, history, Reached
<1>2. Named'
  <2> SUFFICES ASSUME NEW s \in Slot, req[s].pc \in Upstream
               PROVE  row'[req[s].quote].hash = req[s].hash
    BY DEF Named
  <2>1. /\ req[s].quote \in Quote /\ req[s].hash \in Hash
        /\ row[req[s].quote].hash = req[s].hash
    BY DEF ServedInv, Named, GateInv, Held, Carried, Upstream
  <2> QED
    BY <2>1, Names DEF RowsKept
<1>3. ConfirmedAnswered'
  BY DEF ServedInv, ConfirmedAnswered, Answered, history, Reached
<1> QED
  BY <1>1, <1>2, <1>3 DEF ServedInv

(* The moves of a handler: to another step, and to its end.                *)
LEMMA MoveHands ==
    ASSUME NEW s \in Slot, \A t \in Slot : t # s => req'[t] = req[t],
           LocalsOK(s), LetsGo(s), Confirms(s)
    PROVE  Hands(s)
BY DEF Hands, StandsBy

LEMMA FinishHands ==
    ASSUME GateInv, NEW s \in Slot, Finish(s), LetsGo(s), Confirms(s)
    PROVE  Hands(s)
<1>1. req'[s] = Idle /\ \A t \in Slot : t # s => req'[t] = req[t]
  BY FinishMoves DEF GateInv, TypeOK
<1>2. LocalsOK(s)
  BY <1>1 DEF LocalsOK, Idle, Upstream
<1> QED
  BY <1>1, <1>2, MoveHands

LEMMA GotoHands ==
    ASSUME GateInv, ServedInv, RowsKept, HistoryGrows, NEW s \in Slot,
           NEW pc \in Fallible \union {"idle", "verify", "forward", "mark", "release"},
           Goto(s, pc),
           req[s].kind = "verify" => pc \in Unserved,
           pc \in Upstream => req[s].pc \in Upstream,
           pc \in Serving \/ LetsGo(s), Confirms(s)
    PROVE  Hands(s)
<1>1. /\ req'[s] = [req[s] EXCEPT !.pc = pc]
      /\ \A t \in Slot : t # s => req'[t] = req[t]
  BY GotoMoves DEF GateInv, TypeOK
<1>2. /\ req'[s].pc = pc /\ req'[s].hash = req[s].hash /\ req'[s].quote = req[s].quote
      /\ req'[s].kind = req[s].kind /\ req'[s].stream = req[s].stream
  <2>1. req[s] \in ReqType
    BY DEF GateInv, TypeOK
  <2> QED
    BY <1>1, <2>1 DEF ReqType
<1>3. req[s].stream => req[s].hash \in Hash /\ Reaches(req[s].hash)
  BY DEF ServedInv, Streamed, HistoryGrows
<1>4. pc \in Upstream => row'[req[s].quote].hash = req[s].hash
  <2>1. pc \in Upstream =>
           /\ req[s].quote \in Quote /\ req[s].hash \in Hash
           /\ row[req[s].quote].hash = req[s].hash
    BY DEF ServedInv, Named, GateInv, Held, Carried, Upstream
  <2> QED
    BY <2>1, Names DEF RowsKept
<1>5. LocalsOK(s)
  BY <1>2, <1>3, <1>4 DEF LocalsOK
<1>6. LetsGo(s)
  BY <1>2 DEF LetsGo, InHand
<1> QED
  BY <1>1, <1>5, <1>6, MoveHands

(* A handler that has not won yet holds nothing, nor does one that marks.  *)
LEMMA NotServing == ASSUME NEW s, req[s].pc \notin Serving PROVE LetsGo(s)
BY DEF LetsGo

(* A win confirms the row with the hash the handler goes on to serve, or   *)
(* that the verify endpoint has spent.                                     *)
LEMMA WinHands ==
    ASSUME GateInv, ServedInv, RowsKept, HistoryGrows, NEW s \in Slot, At(s, "confirm"),
           NEW q \in Quote, NEW old \in RowType, row[q].hash = NoHash, Win(s, q, old)
    PROVE  Hands(s)
<1>0. TypeOK /\ ConsumedRows /\ Carried /\ req[s].pc = "confirm"
  BY DEF GateInv, At
<1>1. /\ req[s].hash \in Hash /\ row'[q].hash = req[s].hash
      /\ \A p \in Quote : p # q => row'[p] = row[p]
  BY <1>0, WinRows
<1>2. req[s].pc \notin Serving
  BY <1>0 DEF Serving
<1>3. ASSUME InHand(s) \/ Bought(req[s].hash) PROVE Confirms(s)
  <2> SUFFICES ASSUME NEW p \in Quote, row'[p].status = "confirmed"
               PROVE  \/ row[p].status = "confirmed" /\ row'[p].hash = row[p].hash
                      \/ row'[p].hash = req[s].hash
    BY <1>1, <1>3 DEF Confirms
  <2>1. p = q \/ row'[p] = row[p]
    BY <1>1
  <2> QED
    BY <1>1, <2>1
<1>4. CASE req[s].kind = "chat" /\ Goto(s, "reread")
  <2>1. req'[s] = [req[s] EXCEPT !.pc = "reread"]
    BY <1>4, GotoMoves DEF GateInv, TypeOK, Fallible
  <2>2. req'[s].pc = "reread" /\ req'[s].hash = req[s].hash
    BY <2>1 DEF GateInv, TypeOK, ReqType
  <2>3. InHand(s)
    BY <2>2 DEF InHand, Serving
  <2>4. "reread" \in Fallible /\ "reread" \notin Upstream /\ req[s].kind # "verify"
    BY <1>4 DEF Fallible, Upstream
  <2> QED
    BY <1>2, <1>3, <1>4, <2>3, <2>4, NotServing, GotoHands
<1>5. CASE Finish(s) /\ spent' = spent \union {req[s].hash}
  <2>1. Bought(req[s].hash)
    BY <1>5 DEF Bought
  <2> QED
    BY <1>2, <1>3, <1>5, <2>1, NotServing, FinishHands
<1> QED
  BY <1>4, <1>5 DEF Win

(* The steps before a row is won.                                          *)
LEMMA GateHands ==
    ASSUME GateInv, ServedInv, RowsKept, HistoryGrows, NEW s \in Slot,
           \/ Lookup(s) \/ Resolve(s) \/ ClaimHash(s) \/ VerifyOnChain(s)
           \/ ReadDebt(s) \/ SettleDebts(s) \/ Confirm(s)
    PROVE  Hands(s)
<1>0. /\ TypeOK /\ req[s] \in ReqType
      /\ req[s].kind = "verify" => req[s].pc \in Unserved
  BY DEF GateInv, TypeOK, ServedInv, Chats
<1>1. req[s].pc \notin Serving
  BY DEF Lookup, Resolve, ClaimHash, VerifyOnChain, ReadDebt, SettleDebts, Confirm, At, Serving
<1>2. LetsGo(s)
  BY <1>1, NotServing
<1>3. ASSUME UNCHANGED row, Finish(s) PROVE Hands(s)
  BY <1>2, <1>3, SameRowsConfirm, FinishHands
<1>4. ASSUME UNCHANGED row,
             NEW pc \in {"resolve", "verify", "debt", "settle", "confirm", "mark"}, Goto(s, pc),
             req[s].kind = "chat" \/ pc \in Unserved
      PROVE  Hands(s)
  <2>1. pc \in Fallible \union {"verify", "mark"} /\ pc \notin Upstream
    BY DEF Fallible, Upstream
  <2> QED
    BY <1>2, <1>4, <2>1, SameRowsConfirm, GotoHands
<1>5. ASSUME UNCHANGED row, Refuse(s) PROVE Hands(s)
  BY <1>3, <1>4, <1>5 DEF Refuse
<1>6. ASSUME UNCHANGED row, NEW r \in ReqType, req' = [req EXCEPT ![s] = r],
             r.kind = "verify" => r.pc \in Unserved, r.pc \notin Upstream,
             r.stream = req[s].stream, r.hash = req[s].hash
      PROVE  Hands(s)
  <2>1. req'[s] = r /\ \A t \in Slot : t # s => req'[t] = req[t]
    BY <1>0, <1>6 DEF TypeOK
  <2>2. req[s].stream => req[s].hash \in Hash /\ Reaches(req[s].hash)
    BY DEF ServedInv, Streamed, HistoryGrows
  <2>3. LocalsOK(s)
    BY <1>6, <2>1, <2>2 DEF LocalsOK
  <2> QED
    BY <1>2, <1>6, <2>1, <2>3, SameRowsConfirm, MoveHands
<1>7. ASSUME Lookup(s) PROVE Hands(s)
  <2>1. UNCHANGED row /\ req[s].pc = "lookup"
    BY <1>7 DEF Lookup, At, ledgers
  <2>2. req[s].kind = "chat"
    BY <1>0, <2>1 DEF Unserved, ReqType
  <2>3. ASSUME req' = [req EXCEPT ![s] = [@ EXCEPT !.pc = "reread", !.header = NoQuote]]
        PROVE  Hands(s)
    <3> DEFINE r == [req[s] EXCEPT !.pc = "reread", !.header = NoQuote]
    <3>1. /\ r \in ReqType /\ r.kind = req[s].kind /\ r.pc = "reread"
          /\ r.stream = req[s].stream /\ r.hash = req[s].hash
      BY <1>0 DEF ReqType, Fallible
    <3>2. req' = [req EXCEPT ![s] = r]
      BY <2>3
    <3> HIDE DEF r
    <3> QED
      BY <1>6, <2>1, <2>2, <3>1, <3>2 DEF Upstream
  <2> QED
    BY <1>3, <1>4, <1>7, <2>1, <2>2, <2>3 DEF Lookup
<1>8. ASSUME Resolve(s) PROVE Hands(s)
  <2>1. UNCHANGED row
    BY <1>8 DEF Resolve, ledgers
  <2>2. ASSUME NEW q \in Resolved(s),
               req' = [req EXCEPT ![s] = [@ EXCEPT
                         !.pc = "claim", !.header = NoQuote, !.quote = q,
                         !.issued = IF q = NoQuote THEN now ELSE row[q].issued]]
        PROVE  Hands(s)
    <3> DEFINE issued == IF q = NoQuote THEN now ELSE row[q].issued
               r == [req[s] EXCEPT !.pc = "claim", !.header = NoQuote, !.quote = q,
                                   !.issued = issued]
    <3>1. q \in Quote \union {NoQuote}
      BY <1>0 DEF Resolved, ReqType
    <3>2. issued \in Nat
      BY <1>0, <3>1, GateAssumption DEF TypeOK, RowType
    <3>4. req' = [req EXCEPT ![s] = r]
      BY <2>2
    <3> HIDE DEF issued
    <3>3. /\ r \in ReqType /\ r.kind = req[s].kind /\ r.pc = "claim"
          /\ r.stream = req[s].stream /\ r.hash = req[s].hash
      BY <1>0, <3>1, <3>2 DEF ReqType, Fallible
    <3> HIDE DEF r
    <3> QED
      BY <1>6, <2>1, <3>3, <3>4 DEF Upstream, Unserved
  <2> QED
    BY <1>3, <1>8, <2>1, <2>2 DEF Resolve
<1>9. ASSUME ClaimHash(s) \/ VerifyOnChain(s) PROVE Hands(s)
  <2>1. UNCHANGED row
    BY <1>9 DEF ClaimHash, VerifyOnChain, ledgers
  <2>2. \/ Refuse(s)
        \/ Goto(s, "verify") \/ Goto(s, "confirm")
        \/ req[s].kind = "chat" /\ Goto(s, "debt")
    BY <1>9 DEF ClaimHash, VerifyOnChain
  <2> QED
    BY <1>4, <1>5, <2>1, <2>2 DEF Unserved
<1>10. ASSUME ReadDebt(s) \/ SettleDebts(s) PROVE Hands(s)
  <2>1. UNCHANGED row /\ req[s].pc \in {"debt", "settle"}
    BY <1>10 DEF ReadDebt, SettleDebts, At, ledgers
  <2>2. req[s].kind = "chat"
    BY <1>0, <2>1 DEF Unserved, ReqType
  <2>3. Refuse(s) \/ Goto(s, "settle") \/ Goto(s, "confirm")
    BY <1>10 DEF ReadDebt, SettleDebts
  <2> QED
    BY <1>4, <1>5, <2>1, <2>2, <2>3
<1>11. ASSUME Confirm(s) PROVE Hands(s)
  <2>1. At(s, "confirm")
    BY <1>11 DEF Confirm
  <2>2. ASSUME req[s].quote # NoQuote, row[req[s].quote].hash = NoHash,
               Win(s, req[s].quote, row[req[s].quote])
        PROVE  Hands(s)
    <3>1. req[s].quote \in Quote /\ row[req[s].quote] \in RowType
      BY <1>0, <2>2 DEF TypeOK, ReqType
    <3> QED
      BY <2>1, <2>2, <3>1, WinHands
  <2>3. ASSUME NEW new \in Unused, Win(s, new, Pending(req[s].route, req[s].issued))
        PROVE  Hands(s)
    <3>1. new \in Quote /\ row[new].hash = NoHash
      BY <2>3 DEF Unused, GateInv, ConsumedRows
    <3>2. Pending(req[s].route, req[s].issued) \in RowType
      BY <1>0 DEF Pending, RowType, ReqType
    <3> QED
      BY <2>1, <2>3, <3>1, <3>2, WinHands
  <2> QED
    BY <1>3, <1>11, <2>2, <2>3 DEF Confirm
<1> QED
  BY <1>7, <1>8, <1>9, <1>10, <1>11

(* A response bought with a hash is counted.                               *)
LEMMA DeliverBuys ==
    ASSUME GateInv, NEW h \in Hash, Deliver(h)
    PROVE  Reaches(h) /\ Bought(h)
<1>1. delivered[h] \in 0 .. MANY /\ MANY \in Nat
  BY GateAssumption DEF GateInv, TypeOK
<1>2. delivered'[h] = IF delivered[h] < MANY THEN delivered[h] + 1 ELSE delivered[h]
  BY DEF Deliver, GateInv, TypeOK
<1> QED
  BY <1>1, <1>2 DEF Bought, Reaches

(* The steps of a handler that has its payment's row, to their end.        *)
LEMMA ServingHands ==
    ASSUME GateInv, ServedInv, RowsKept, HistoryGrows, NEW s \in Slot,
           \/ Reread(s) \/ Forward(s) \/ Restore(s) \/ Meter(s) \/ Reply(s)
           \/ MarkUpstreamFailure(s)
    PROVE  Hands(s)
<1>0. /\ TypeOK /\ req[s] \in ReqType /\ req[s].pc \in Serving
      /\ req[s].kind = "chat" /\ req[s].hash \in Hash
  <2>1. req[s].pc \in Serving /\ req[s].pc \notin Unserved /\ req[s].pc # "idle"
    BY DEF Reread, Forward, Restore, Meter, Reply, MarkUpstreamFailure, At, Serving, Unserved
  <2> QED
    BY <2>1 DEF GateInv, TypeOK, ServedInv, Chats, Carried, ReqType
<1>1. ASSUME NEW pc \in Serving, Goto(s, pc), Confirms(s),
             pc \in Upstream => req[s].pc \in Upstream
      PROVE  Hands(s)
  <2>1. pc \in Fallible \union {"forward", "mark"}
    BY <1>1 DEF Serving, Fallible
  <2> QED
    BY <1>0, <1>1, <2>1, GotoHands
<1>2. req[s].pc \in Upstream =>
         /\ req[s].quote \in Quote /\ row[req[s].quote].hash = req[s].hash
  BY DEF ServedInv, Named, GateInv, Held, Upstream
<1>3. req[s].stream => Reaches(req[s].hash) /\ Bought(req[s].hash)
  BY <1>0 DEF ServedInv, Streamed, HistoryGrows, Bought
<1>4. req[s].pc \in Upstream => row'[req[s].quote].hash = req[s].hash
  BY <1>0, <1>2, Names DEF RowsKept
<1>5. CASE Reread(s)
  <2> DEFINE q == RowOf(req[s].hash)
             u == row[q].status = "upstream_failed"
             r == [req[s] EXCEPT !.pc = "forward", !.quote = q, !.issued = 0, !.missed = {},
                                 !.retry = u]
  <2>1. q \in Quote /\ row[q].hash = req[s].hash
    BY <1>5, RowOfBound DEF Reread, At, GateInv, Held
  <2>2. row'[q].hash = req[s].hash
    BY <1>0, <2>1, Names DEF RowsKept
  <2>3. req' = [req EXCEPT ![s] = r] /\ UNCHANGED row
    BY <1>5 DEF Reread, ledgers
  <2>4. u \in BOOLEAN
    OBVIOUS
  <2> HIDE DEF q, u
  <2>5. /\ r.pc = "forward" /\ r.quote = q /\ r.hash = req[s].hash
        /\ r.kind = req[s].kind /\ r.stream = req[s].stream
    BY <1>0 DEF ReqType
  <2> HIDE DEF r
  <2>6. req'[s] = r /\ \A t \in Slot : t # s => req'[t] = req[t]
    BY <1>0, <2>3 DEF TypeOK
  <2>7. LocalsOK(s)
    BY <1>0, <1>3, <2>2, <2>5, <2>6 DEF LocalsOK
  <2>8. LetsGo(s)
    BY <2>5, <2>6 DEF LetsGo, InHand, Serving
  <2> QED
    BY <2>3, <2>6, <2>7, <2>8, SameRowsConfirm, MoveHands
<1>6. CASE Forward(s)
  <2>1. UNCHANGED row /\ req[s].pc \in Upstream
    BY <1>6 DEF Forward, At, ledgers, Upstream
  <2>2. ASSUME NEW pc \in {"mark", "restore", "meter"}, Goto(s, pc) PROVE Hands(s)
    <3>1. pc \in Serving
      BY DEF Serving
    <3> QED
      BY <1>1, <2>1, <2>2, <3>1, SameRowsConfirm
  <2>3. ASSUME req' = [req EXCEPT ![s] = [@ EXCEPT !.pc = "meter", !.stream = TRUE]],
               Deliver(req[s].hash)
        PROVE  Hands(s)
    <3> DEFINE r == [req[s] EXCEPT !.pc = "meter", !.stream = TRUE]
    <3>1. /\ r.pc = "meter" /\ r.hash = req[s].hash /\ r.quote = req[s].quote
          /\ r.kind = req[s].kind
      BY <1>0 DEF ReqType
    <3>2. req' = [req EXCEPT ![s] = r]
      BY <2>3
    <3> HIDE DEF r
    <3>3. req'[s] = r /\ \A t \in Slot : t # s => req'[t] = req[t]
      BY <1>0, <3>2 DEF TypeOK
    <3>4. Reaches(req[s].hash)
      BY <1>0, <2>3, DeliverBuys
    <3>5. LocalsOK(s)
      BY <1>0, <1>4, <2>1, <3>1, <3>3, <3>4 DEF LocalsOK
    <3>6. LetsGo(s)
      BY <3>1, <3>3 DEF LetsGo, InHand, Serving
    <3> QED
      BY <2>1, <3>3, <3>5, <3>6, SameRowsConfirm, MoveHands
  <2> QED
    BY <1>6, <2>2, <2>3 DEF Forward
<1>7. CASE Restore(s)
  <2>1. req[s].pc \in Upstream
    BY <1>7 DEF Restore, At, Upstream
  <2>2. \A q \in Quote :
           \/ row'[q] = row[q]
           \/ q = req[s].quote
    BY <1>7 DEF Restore, Restored, GateInv, TypeOK
  <2>3. ASSUME InHand(s) \/ Bought(req[s].hash) PROVE Confirms(s)
    <3> SUFFICES ASSUME NEW q \in Quote, row'[q].status = "confirmed"
                 PROVE  \/ row[q].status = "confirmed" /\ row'[q].hash = row[q].hash
                        \/ row'[q].hash = req[s].hash
      BY <1>0, <2>3 DEF Confirms
    <3> QED
      BY <1>4, <2>1, <2>2
  <2>4. CASE req[s].stream /\ Finish(s)
    <3>1. Bought(req[s].hash)
      BY <1>3, <2>4
    <3> QED
      BY <2>3, <2>4, <3>1, FinishHands DEF LetsGo
  <2>5. CASE Goto(s, "meter")
    <3>1. req'[s] = [req[s] EXCEPT !.pc = "meter"]
      BY <2>5, GotoMoves DEF GateInv, TypeOK, Fallible
    <3>2. InHand(s)
      BY <1>0, <3>1 DEF ReqType, InHand, Serving
    <3> QED
      BY <1>1, <2>1, <2>3, <2>5, <3>2 DEF Serving
  <2> QED
    BY <1>7, <2>4, <2>5 DEF Restore
<1>8. CASE Meter(s)
  <2> DEFINE q == req[s].quote
             next == IF ~req[s].stream THEN [req[s] EXCEPT !.pc = "reply"]
                     ELSE IF req[s].retry THEN [req[s] EXCEPT !.pc = "restore"]
                     ELSE Idle
  <2>0. UNCHANGED row /\ req[s].pc \in Upstream
    BY <1>8 DEF Meter, At, Upstream
  <2>1. /\ req'[s] = next
        /\ \A t \in Slot : t # s => \/ req'[t] = req[t]
                                    \/ \E m : req'[t] = [req[t] EXCEPT !.missed = m]
    BY <1>8 DEF Meter
  <2>2. \/ /\ next.pc \in Serving /\ next.hash = req[s].hash /\ next.quote = req[s].quote
           /\ next.kind = req[s].kind /\ next.stream = req[s].stream
        \/ req[s].stream /\ next = Idle
    BY <1>0 DEF ReqType, Serving
  <2> HIDE DEF next
  <2>3. ASSUME NEW t \in Slot, t # s PROVE StandsBy(t)
    <3>1. req[t] \in ReqType
      BY <1>0 DEF TypeOK
    <3> QED
      BY <2>1, <2>3, <3>1 DEF StandsBy, ReqType
  <2>4. LocalsOK(s)
    BY <1>0, <1>3, <1>4, <2>0, <2>1, <2>2 DEF LocalsOK, Idle, Upstream
  <2>5. LetsGo(s)
    BY <1>3, <2>1, <2>2 DEF LetsGo, InHand
  <2> QED
    BY <2>0, <2>3, <2>4, <2>5, SameRowsConfirm DEF Hands
<1>9. CASE Reply(s)
  <2>1. Bought(req[s].hash)
    BY <1>0, <1>9, DeliverBuys DEF Reply
  <2>2. Finish(s) /\ UNCHANGED row
    BY <1>9 DEF Reply, ledgers
  <2> QED
    BY <2>1, <2>2, SameRowsConfirm, FinishHands DEF LetsGo
<1>10. CASE MarkUpstreamFailure(s)
  <2>1. \A q \in Quote :
           IF row[q].hash = req[s].hash
           THEN row'[q] = [row[q] EXCEPT !.status = "upstream_failed"]
           ELSE row'[q] = row[q]
    BY <1>10 DEF MarkUpstreamFailure, Marked
  <2>2. \A q \in Quote : row[q] \in RowType
    BY <1>0 DEF TypeOK
  <2>3. \A q \in Quote : /\ row'[q].hash = row[q].hash
                         /\ row'[q].status = "confirmed" =>
                               row[q].hash # req[s].hash /\ row[q].status = "confirmed"
    BY <2>1, <2>2 DEF RowType
  <2>4. LetsGo(s) /\ Confirms(s)
    BY <2>3 DEF LetsGo, Confirms
  <2>5. "release" \notin Upstream /\ Goto(s, "release")
    BY <1>10 DEF Upstream, MarkUpstreamFailure
  <2> QED
    BY <1>0, <2>4, <2>5, GotoHands
<1> QED
  BY <1>5, <1>6, <1>7, <1>8, <1>9, <1>10

LEMMA NextServed ==
    GateInv /\ ServedInv /\ [Next]_vars => ServedInv'
<1> SUFFICES ASSUME GateInv, ServedInv, [Next]_vars PROVE ServedInv'
  OBVIOUS
<1>0. /\ TypeOK /\ ConsumedRows /\ Carried
      /\ \A s \in Slot : req[s].pc \in Serving => req[s].kind = "chat"
  BY DEF GateInv, TypeOK, ServedInv, Chats, Unserved, Serving, ReqType
<1>1. RowsKept /\ HistoryGrows
  BY <1>0, NextRows, NextHistory
<1>2. ASSUME NEW s \in Slot, Hands(s) PROVE ServedInv'
  BY <1>1, <1>2, HandsKeep
<1>3. ASSUME NEW s \in Slot, Handle(s) PROVE ServedInv'
  <2>1. CASE \/ Lookup(s) \/ Resolve(s) \/ ClaimHash(s) \/ VerifyOnChain(s)
             \/ ReadDebt(s) \/ SettleDebts(s) \/ Confirm(s)
    BY <1>1, <1>2, <2>1, GateHands
  <2>2. CASE \/ Reread(s) \/ Forward(s) \/ Restore(s) \/ Meter(s) \/ Reply(s)
             \/ MarkUpstreamFailure(s)
    BY <1>1, <1>2, <2>2, ServingHands
  <2>3. CASE ReleaseHash(s)
    <3>1. UNCHANGED row /\ Finish(s) /\ req[s].pc \notin Serving
      BY <2>3 DEF ReleaseHash, At, Serving, ledgers
    <3> QED
      BY <1>2, <3>1, NotServing, SameRowsConfirm, FinishHands
  <2> QED
    BY <1>3, <2>1, <2>2, <2>3 DEF Handle
<1>4. ASSUME NEW s \in Slot, Throw(s) PROVE ServedInv'
  <2>1. UNCHANGED row
    BY <1>4 DEF Throw, ledgers
  <2>2. CASE req[s].kind = "chat" /\ Goto(s, "mark")
    <3>1. "mark" \in Serving /\ "mark" \notin Upstream
      BY DEF Serving, Upstream
    <3> QED
      BY <1>1, <1>2, <2>1, <2>2, <3>1, SameRowsConfirm, GotoHands
  <2>3. CASE req[s].kind # "chat" /\ Finish(s)
    BY <1>0, <1>2, <2>1, <2>3, NotServing, SameRowsConfirm, FinishHands
  <2> QED
    BY <1>4, <2>2, <2>3 DEF Throw
<1>5. ASSUME NEW s \in Slot, Die(s) PROVE ServedInv'
  <2>1. LetsGo(s) /\ UNCHANGED row /\ Finish(s)
    BY <1>5 DEF Die, LetsGo, Bought, ledgers
  <2> QED
    BY <1>2, <2>1, SameRowsConfirm, FinishHands
<1>6. ASSUME NEW s \in Slot, NEW r \in ReqType, req' = [req EXCEPT ![s] = r], UNCHANGED row,
             At(s, "idle"), r.pc \in {"lookup", "claim"}, ~r.stream,
             r.kind = "verify" => r.pc = "claim"
      PROVE  ServedInv'
  <2>1. req'[s] = r /\ \A t \in Slot : t # s => req'[t] = req[t]
    BY <1>0, <1>6 DEF TypeOK
  <2>2. LocalsOK(s)
    BY <1>6, <2>1 DEF LocalsOK, Unserved, Upstream
  <2>3. req[s].pc \notin Serving
    BY <1>6 DEF At, Serving
  <2> QED
    BY <1>2, <1>6, <2>1, <2>2, <2>3, NotServing, SameRowsConfirm, MoveHands
<1>7. ASSUME NEW s \in Slot, NEW h \in Hash, NEW route \in Route,
             NEW header \in Quote \union {NoQuote}, StartChat(s, h, route, header)
      PROVE  ServedInv'
  <2> DEFINE r == [Idle EXCEPT !.pc = "lookup", !.hash = h, !.route = route, !.header = header]
  <2>1. r \in ReqType /\ r.pc = "lookup" /\ ~r.stream /\ r.kind = "chat"
    BY DEF Idle, ReqType, Fallible
  <2>2. req' = [req EXCEPT ![s] = r] /\ UNCHANGED row /\ At(s, "idle")
    BY <1>7 DEF StartChat, ledgers
  <2> HIDE DEF r
  <2> QED
    BY <1>6, <2>1, <2>2
<1>8. ASSUME NEW s \in Slot, NEW h \in Hash, NEW q \in Quote, StartVerify(s, h, q)
      PROVE  ServedInv'
  <2> DEFINE r == [Idle EXCEPT !.pc = "claim", !.kind = "verify", !.hash = h, !.quote = q,
                               !.route = row[q].route, !.issued = row[q].issued]
  <2>0. row[q] \in RowType
    BY <1>0 DEF TypeOK
  <2>1. r \in ReqType /\ r.pc = "claim" /\ ~r.stream
    BY <2>0 DEF Idle, ReqType, Fallible, RowType
  <2>2. req' = [req EXCEPT ![s] = r] /\ UNCHANGED row /\ At(s, "idle")
    BY <1>8 DEF StartVerify, ledgers
  <2> HIDE DEF r
  <2> QED
    BY <1>6, <2>1, <2>2
<1>9. ASSUME UNCHANGED <<req, history>>,
             \A q \in Quote : row'[q].status = "confirmed" => row'[q] = row[q]
      PROVE  ServedInv'
  BY <1>1, <1>9, ServedStands
<1>10. ASSUME NEW q \in Quote, NEW route \in Route, IssueQuote(q, route) PROVE ServedInv'
  <2>1. /\ row' = [row EXCEPT ![q] = Pending(route, now)]
        /\ UNCHANGED <<req, history>>
    BY <1>10 DEF IssueQuote
  <2>2. Pending(route, now).status = "pending"
    BY DEF Pending
  <2> QED
    BY <1>0, <1>9, <2>1, <2>2 DEF TypeOK
<1>11. ASSUME ExpireStale PROVE ServedInv'
  <2>1. /\ UNCHANGED <<req, history>>
        /\ \A q \in Quote : row'[q] = row[q] \/ row'[q] = [row[q] EXCEPT !.status = "expired"]
    BY <1>11 DEF ExpireStale
  <2>2. \A q \in Quote : row[q] \in RowType
    BY <1>0 DEF TypeOK
  <2> QED
    BY <1>9, <2>1, <2>2 DEF RowType
<1>12. ASSUME \/ Tick
              \/ \E h \in Hash, memo \in Quote \union {NoQuote}, payer \in Payer,
                    n \in 1 .. MAX_AMOUNT : Pay(h, memo, payer, n)
              \/ \E h \in Hash : LoseClaim(h)
              \/ UNCHANGED vars
       PROVE  ServedInv'
  <2>1. UNCHANGED <<req, history>> /\ UNCHANGED row
    BY <1>12 DEF Tick, Pay, LoseClaim, vars, ledgers
  <2> QED
    BY <1>9, <2>1
<1> QED
  BY <1>3, <1>4, <1>5, <1>7, <1>8, <1>10, <1>11, <1>12 DEF Next

LEMMA InitServed == Init => ServedInv
<1> SUFFICES ASSUME Init PROVE ServedInv
  OBVIOUS
<1>1. \A q \in Quote : row[q].status # "confirmed"
  BY DEF Init, NoRow
<1>2. \A s \in Slot : req[s].kind # "verify" /\ ~req[s].stream /\ req[s].pc = "idle"
  BY DEF Init, Idle
<1> QED
  BY <1>1, <1>2 DEF ServedInv, Chats, Streamed, Named, ConfirmedAnswered, Upstream

(* Where deliveries are counted at all, a confirmed payment has bought a   *)
(* response or a handler is at work on it, unless one died holding it or   *)
(* the verify endpoint consumed it.                                        *)
THEOREM PaidIsServedOrHeldAlways ==
    ASSUME MANY > 0 PROVE Spec => []PaidIsServedOrHeld
<1>1. ServedInv => PaidIsServedOrHeld
  BY DEF ServedInv, ConfirmedAnswered, Answered, Reached, PaidIsServedOrHeld
<1> QED
  BY <1>1, InitInv, NextInv, InitServed, NextServed, PTL DEF Spec

-------------------------------------------------------------------------------

(* The debt gate.  A debt belongs to a row that carries a hash, so its     *)
(* payer is known and never changes; the gate lets a request through when  *)
(* the sum of the open debts is nothing, which says that there is none     *)
(* because debts are finite; and what is recorded after that is missed.    *)
DebtsBound == \A q \in Quote : debt[q] > 0 => row[q].hash # NoHash

DebtInv == DebtsBound /\ IsFiniteSet(Units(debt)) /\ NoAdmissionWhileOwing

(* A sum of debts is zero only if no debt is open.                         *)
LEMMA NothingOwed ==
    ASSUME GateInv, IsFiniteSet(Units(debt)), NEW h, OpenDebt(h) = 0
    PROVE  OpenDebts(h) = {}
<1> DEFINE S == OpenDebts(h)
           f == [q \in S |-> debt[q]]
<1>0. debt \in [Quote -> Nat] /\ S \subseteq Quote /\ \A q \in S : debt[q] > 0
  BY GateAssumption DEF GateInv, TypeOK, OpenDebts
<1> HIDE DEF S
<1>1. f \in [S -> Nat] /\ \A q \in S : f[q] = debt[q]
  BY <1>0
<1>2. Total(f) = 0
  BY DEF OpenDebt, S
<1> HIDE DEF f
<1>3. Units(f) \subseteq Units(debt)
  <2> SUFFICES ASSUME NEW u \in Units(f) PROVE u \in Units(debt)
    OBVIOUS
  <2>1. PICK q \in S : \E i \in 1 .. f[q] : u = <<q, i>>
    BY <1>1, UnitsPairs
  <2>2. PICK i \in 1 .. f[q] : u = <<q, i>>
    BY <2>1
  <2>3. q \in Quote /\ i \in 1 .. debt[q]
    BY <1>0, <1>1, <2>2
  <2> QED
    BY <1>0, <2>2, <2>3, UnitsMember
<1>4. IsFiniteSet(Units(f))
  BY <1>3, FS_Subset
<1>5. Units(f) = {}
  BY <1>2, <1>4, FS_EmptySet DEF Total
<1>6. ASSUME NEW q \in S PROVE FALSE
  <2>1. 1 \in 1 .. f[q]
    BY <1>0, <1>1, <1>6
  <2>2. <<q, 1>> \in Units(f)
    BY <1>1, <1>6, <2>1, UnitsMember
  <2> QED
    BY <1>5, <2>2
<1>7. S = {}
  BY <1>6
<1> QED
  BY <1>7 DEF S

(* The open debts of a payer after a step: those before it, and new ones.  *)
StillOpen(h) ==
    {q \in Quote : /\ debt'[q] > 0 /\ q \notin settled'
                   /\ tx'[row'[q].hash].payer = tx'[h].payer}

NewDebts == {q \in Quote : debt'[q] > 0 /\ ~(debt[q] > 0)}

LEMMA DebtsStay ==
    ASSUME GateInv, AdmissionInv, DebtsBound, [Next]_vars, NEW h \in DOMAIN tx
    PROVE  StillOpen(h) \subseteq (OpenDebts(h) \ settled') \union NewDebts
<1>1. \A g \in DOMAIN tx : g \in DOMAIN tx' /\ tx'[g] = tx[g]
  <2>1. ASSUME NEW g \in Hash, NEW memo \in Quote \union {NoQuote}, NEW payer \in Payer,
               NEW n \in 1 .. MAX_AMOUNT, Pay(g, memo, payer, n)
        PROVE  \A k \in DOMAIN tx : k \in DOMAIN tx' /\ tx'[k] = tx[k]
    BY <2>1 DEF Pay
  <2> QED
    BY <2>1, ChainMoves
<1>2. RowsKept
  BY NextRows DEF GateInv
<1>3. settled \subseteq settled'
  <2>1. ASSUME NEW s \in Slot, SettleDebts(s) PROVE settled \subseteq settled'
    BY <2>1 DEF SettleDebts
  <2> QED
    BY <2>1, DebtsMove
<1> SUFFICES ASSUME NEW q \in StillOpen(h), debt[q] > 0 PROVE q \in OpenDebts(h) \ settled'
  BY DEF StillOpen, NewDebts
<1>4. q \in Quote /\ q \notin settled' /\ tx'[row'[q].hash].payer = tx'[h].payer
  BY DEF StillOpen
<1>5. row[q].hash # NoHash
  BY <1>4 DEF DebtsBound
<1>6. row'[q].hash = row[q].hash /\ row[q].hash \in DOMAIN tx
  BY <1>2, <1>4, <1>5 DEF RowsKept, AdmissionInv, RowsPaid, WasPaid
<1> QED
  BY <1>1, <1>3, <1>4, <1>6 DEF OpenDebts

(* How a chat request gets to the point of taking its row, or stays there: *)
(* from the gate, by its own step, or by watching new debts go by.         *)
Waits(t) ==
    /\ At(t, "confirm") /\ req[t].kind = "chat"
    /\ req[t].missed \subseteq req'[t].missed
    /\ NewDebts \subseteq req'[t].missed

Cleared(t) ==
    \/ ReadDebt(t) /\ OpenDebt(req[t].hash) = 0
    \/ SettleDebts(t)

Ready(t) ==
    req'[t].pc = "confirm" /\ req'[t].kind = "chat" =>
       req'[t].hash = req[t].hash /\ (Waits(t) \/ Cleared(t))

LEMMA NoNewDebts == ASSUME UNCHANGED debt PROVE NewDebts = {}
BY DEF NewDebts

LEMMA MoveReady ==
    ASSUME UNCHANGED debt, NEW s \in Slot, \A t \in Slot : t # s => req'[t] = req[t], Ready(s)
    PROVE  \A t \in Slot : Ready(t)
<1> SUFFICES ASSUME NEW t \in Slot, t # s PROVE Ready(t)
  OBVIOUS
<1>1. req'[t] = req[t]
  OBVIOUS
<1> QED
  BY <1>1, NoNewDebts DEF Ready, Waits, At

LEMMA FinishReady ==
    ASSUME TypeOK, UNCHANGED debt, NEW s \in Slot, Finish(s)
    PROVE  \A t \in Slot : Ready(t)
<1>1. req'[s] = Idle /\ \A t \in Slot : t # s => req'[t] = req[t]
  BY FinishMoves DEF TypeOK
<1>2. Ready(s)
  BY <1>1 DEF Ready, Idle
<1> QED
  BY <1>1, <1>2, MoveReady

LEMMA GotoReady ==
    ASSUME TypeOK, UNCHANGED debt, NEW s \in Slot,
           NEW pc \in Fallible \union {"idle", "verify", "forward", "mark", "release"},
           Goto(s, pc), pc = "confirm" => Cleared(s) \/ req[s].kind # "chat"
    PROVE  \A t \in Slot : Ready(t)
<1>1. req[s] \in ReqType
  BY DEF TypeOK
<1>2. req'[s] = [req[s] EXCEPT !.pc = pc] /\ \A t \in Slot : t # s => req'[t] = req[t]
  BY GotoMoves DEF TypeOK
<1>3. req'[s].pc = pc /\ req'[s].hash = req[s].hash /\ req'[s].kind = req[s].kind
  BY <1>1, <1>2 DEF ReqType
<1>4. Ready(s)
  BY <1>3 DEF Ready
<1> QED
  BY <1>2, <1>4, MoveReady

LEMMA RefuseReady ==
    ASSUME TypeOK, UNCHANGED debt, NEW s \in Slot, Refuse(s)
    PROVE  \A t \in Slot : Ready(t)
BY FinishReady, GotoReady DEF Refuse

(* A response that is metered tells the requests about to take their row.  *)
LEMMA MeterReady ==
    ASSUME TypeOK, NEW s \in Slot, Meter(s)
    PROVE  \A t \in Slot : Ready(t)
<1> DEFINE q == req[s].quote
           next == IF ~req[s].stream THEN [req[s] EXCEPT !.pc = "reply"]
                   ELSE IF req[s].retry THEN [req[s] EXCEPT !.pc = "restore"]
                   ELSE Idle
<1>0. \A t \in Slot : req[t] \in ReqType
  BY DEF TypeOK
<1>1. /\ req'[s] = next
      /\ \A t \in Slot : t # s =>
            req'[t] = IF req[t].pc \in {"settle", "confirm"} /\ debt'[q] > debt[q]
                      THEN [req[t] EXCEPT !.missed = @ \union {q}]
                      ELSE req[t]
  BY DEF Meter
<1>2. next.pc # "confirm"
  BY <1>0 DEF ReqType, Idle
<1> HIDE DEF next
<1>3. Ready(s)
  BY <1>1, <1>2 DEF Ready
<1>4. NewDebts \subseteq {q}
  BY DEF Meter, NewDebts, TypeOK
<1>5. q \in NewDebts => debt'[q] > debt[q]
  <2>1. debt \in [Quote -> Nat]
    BY GateAssumption DEF TypeOK
  <2>2. debt'[q] \in Nat \/ q \notin Quote
    BY <2>1 DEF Meter
  <2> QED
    BY <2>1, <2>2 DEF NewDebts
<1> HIDE DEF q
<1>6. ASSUME NEW t \in Slot, t # s PROVE Ready(t)
  <2>1. CASE req'[t] = req[t] /\ ~(req[t].pc \in {"settle", "confirm"} /\ debt'[q] > debt[q])
    BY <1>4, <1>5, <2>1 DEF Ready, Waits, At
  <2>2. CASE req'[t] = [req[t] EXCEPT !.missed = @ \union {q}]
    <3>1. /\ req'[t].pc = req[t].pc /\ req'[t].kind = req[t].kind /\ req'[t].hash = req[t].hash
          /\ req'[t].missed = req[t].missed \union {q}
      BY <1>0, <2>2 DEF ReqType
    <3> QED
      BY <1>4, <3>1 DEF Ready, Waits, At
  <2> QED
    BY <1>1, <1>6, <2>1, <2>2
<1> QED
  BY <1>3, <1>6

LEMMA HandleReady ==
    ASSUME GateInv, ServedInv, NEW s \in Slot, Handle(s)
    PROVE  \A t \in Slot : Ready(t)
<1> DEFINE G == \A t \in Slot : Ready(t)
<1>0. TypeOK /\ req[s] \in ReqType
  BY DEF GateInv, TypeOK
<1>1. ASSUME UNCHANGED debt,
             NEW pc \in {"resolve", "verify", "debt", "settle", "reread", "restore", "meter",
                         "reply", "mark", "release"},
             Goto(s, pc)
      PROVE  G
  <2>1. pc \in Fallible \union {"verify", "mark", "release"}
    BY DEF Fallible
  <2> QED
    BY <1>0, <1>1, <2>1, GotoReady
<1>2. ASSUME UNCHANGED debt, Goto(s, "confirm"), Cleared(s) \/ req[s].kind # "chat" PROVE G
  BY <1>0, <1>2, GotoReady DEF Fallible
<1>3. ASSUME UNCHANGED debt, Finish(s) PROVE G
  BY <1>0, <1>3, FinishReady
<1>4. ASSUME UNCHANGED debt, Refuse(s) PROVE G
  BY <1>0, <1>4, RefuseReady
<1>5. ASSUME UNCHANGED debt, req'[s].pc # "confirm",
             \A t \in Slot : t # s => req'[t] = req[t]
      PROVE  G
  BY <1>5, MoveReady DEF Ready
<1>6. CASE Lookup(s)
  <2>1. ASSUME req' = [req EXCEPT ![s] = [@ EXCEPT !.pc = "reread", !.header = NoQuote]]
        PROVE  req'[s].pc # "confirm" /\ \A t \in Slot : t # s => req'[t] = req[t]
    BY <1>0, <2>1 DEF TypeOK, ReqType
  <2> QED
    BY <1>1, <1>3, <1>5, <1>6, <2>1 DEF Lookup, ledgers
<1>7. CASE Resolve(s)
  <2>1. ASSUME NEW q, NEW i,
               req' = [req EXCEPT ![s] = [@ EXCEPT
                         !.pc = "claim", !.header = NoQuote, !.quote = q, !.issued = i]]
        PROVE  req'[s].pc # "confirm" /\ \A t \in Slot : t # s => req'[t] = req[t]
    BY <1>0, <2>1 DEF TypeOK, ReqType
  <2>2. \/ Finish(s)
        \/ \E q \in Resolved(s), i \in {now} \union {row[p].issued : p \in Resolved(s)} :
              req' = [req EXCEPT ![s] = [@ EXCEPT
                        !.pc = "claim", !.header = NoQuote, !.quote = q, !.issued = i]]
    BY <1>7 DEF Resolve
  <2>3. UNCHANGED debt
    BY <1>7 DEF Resolve, ledgers
  <2> QED
    BY <1>3, <1>5, <2>1, <2>2, <2>3
<1>8. CASE ClaimHash(s) \/ VerifyOnChain(s)
  <2>1. UNCHANGED debt
    BY <1>8 DEF ClaimHash, VerifyOnChain, ledgers
  <2>2. \/ Refuse(s) \/ Goto(s, "verify") \/ Goto(s, "debt")
        \/ req[s].kind # "chat" /\ Goto(s, "confirm")
    BY <1>8 DEF ClaimHash, VerifyOnChain
  <2> QED
    BY <1>1, <1>2, <1>4, <2>1, <2>2
<1>9. CASE ReadDebt(s)
  <2>1. UNCHANGED debt
    BY <1>9 DEF ReadDebt, ledgers
  <2>2. \/ OpenDebt(req[s].hash) = 0 /\ Goto(s, "confirm")
        \/ Goto(s, "settle") \/ Refuse(s)
    BY <1>9 DEF ReadDebt
  <2> QED
    BY <1>1, <1>2, <1>4, <1>9, <2>1, <2>2 DEF Cleared
<1>10. CASE SettleDebts(s)
  BY <1>2, <1>10 DEF SettleDebts, Cleared
<1>11. CASE Confirm(s)
  <2>1. UNCHANGED debt /\ (Finish(s) \/ Goto(s, "reread"))
    BY <1>11 DEF Confirm, Win
  <2> QED
    BY <1>1, <1>3, <2>1
<1>12. CASE Reread(s)
  <2>1. req'[s].pc = "forward" /\ \A t \in Slot : t # s => req'[t] = req[t]
    BY <1>0, <1>12 DEF Reread, TypeOK, ReqType
  <2> QED
    BY <1>5, <1>12, <2>1 DEF Reread, ledgers
<1>13. CASE Forward(s)
  <2>1. ASSUME req' = [req EXCEPT ![s] = [@ EXCEPT !.pc = "meter", !.stream = TRUE]]
        PROVE  req'[s].pc # "confirm" /\ \A t \in Slot : t # s => req'[t] = req[t]
    BY <1>0, <2>1 DEF TypeOK, ReqType
  <2>2. UNCHANGED debt
    BY <1>13 DEF Forward, ledgers
  <2> QED
    BY <1>1, <1>5, <1>13, <2>1, <2>2 DEF Forward
<1>14. CASE Meter(s)
  BY <1>0, <1>14, MeterReady
<1>15. CASE Restore(s) \/ Reply(s)
  <2>1. UNCHANGED debt /\ (Finish(s) \/ Goto(s, "meter"))
    BY <1>15 DEF Restore, Reply, ledgers
  <2> QED
    BY <1>1, <1>3, <2>1
<1>16. CASE MarkUpstreamFailure(s) \/ ReleaseHash(s)
  <2>1. UNCHANGED debt /\ (Finish(s) \/ Goto(s, "release"))
    BY <1>16 DEF MarkUpstreamFailure, ReleaseHash, ledgers
  <2> QED
    BY <1>1, <1>3, <2>1
<1> QED
  BY <1>6, <1>7, <1>8, <1>9, <1>10, <1>11, <1>12, <1>13, <1>14, <1>15, <1>16 DEF Handle

LEMMA NextReady ==
    ASSUME GateInv, ServedInv, [Next]_vars
    PROVE  \A t \in Slot : Ready(t)
<1> DEFINE G == \A t \in Slot : Ready(t)
<1>0. TypeOK
  BY DEF GateInv
<1>1. ASSUME NEW s \in Slot, Handle(s) PROVE G
  BY <1>1, HandleReady
<1>2. CASE \A s \in Slot : ~Handle(s)
  <2>0. UNCHANGED debt
    BY <1>2, OthersWrite
  <2>1. ASSUME UNCHANGED req PROVE G
    BY <2>0, <2>1, NoNewDebts DEF Ready, Waits, At
  <2>2. ASSUME NEW s \in Slot, Throw(s) \/ Die(s) PROVE G
    <3>1. Finish(s) \/ Goto(s, "mark")
      BY <2>2 DEF Throw, Die
    <3> QED
      BY <1>0, <2>0, <3>1, FinishReady, GotoReady
  <2>3. ASSUME NEW s \in Slot, req'[s].pc \in {"lookup", "claim"},
               \A t \in Slot : t # s => req'[t] = req[t]
        PROVE  G
    BY <2>0, <2>3, MoveReady DEF Ready
  <2>4. ASSUME NEW s \in Slot, NEW h \in Hash, NEW route \in Route,
               NEW header \in Quote \union {NoQuote}, StartChat(s, h, route, header)
        PROVE  G
    <3>1. req'[s].pc = "lookup" /\ \A t \in Slot : t # s => req'[t] = req[t]
      BY <1>0, <2>4 DEF StartChat, Idle, TypeOK
    <3> QED
      BY <2>3, <3>1
  <2>5. ASSUME NEW s \in Slot, NEW h \in Hash, NEW q \in Quote, StartVerify(s, h, q)
        PROVE  G
    <3>1. req'[s].pc = "claim" /\ \A t \in Slot : t # s => req'[t] = req[t]
      BY <1>0, <2>5 DEF StartVerify, Idle, TypeOK
    <3> QED
      BY <2>3, <3>1
  <2>6. ASSUME \/ Tick \/ ExpireStale
               \/ \E q \in Quote, route \in Route : IssueQuote(q, route)
               \/ \E h \in Hash, memo \in Quote \union {NoQuote}, payer \in Payer,
                     n \in 1 .. MAX_AMOUNT : Pay(h, memo, payer, n)
               \/ \E h \in Hash : LoseClaim(h)
               \/ UNCHANGED vars
        PROVE  UNCHANGED req
    BY <2>6 DEF Tick, ExpireStale, IssueQuote, Pay, LoseClaim, vars
  <2> QED
    BY <1>2, <2>1, <2>2, <2>4, <2>5, <2>6 DEF Next
<1> QED
  BY <1>1, <1>2

LEMMA MeterDebts ==
    ASSUME GateInv, ServedInv, IsFiniteSet(Units(debt)), NEW s \in Slot, Meter(s)
    PROVE  /\ IsFiniteSet(Units(debt'))
           /\ \A q \in NewDebts : row'[q].hash # NoHash
<1> DEFINE q == req[s].quote
<1>0. debt \in [Quote -> Nat] /\ q \in Quote
  BY GateAssumption DEF GateInv, TypeOK, Held, Meter, At
<1>1. PICK deficit \in 0 .. MAX_DEFICIT :
         debt' = [debt EXCEPT ![q] = IF @ = 0 THEN deficit ELSE @]
  BY DEF Meter
<1>2. deficit \in Nat
  BY GateAssumption
<1>3. row[q].hash # NoHash /\ UNCHANGED row
  <2>1. req[s].hash \in Hash /\ row[q].hash = req[s].hash
    BY DEF Meter, At, GateInv, Carried, ServedInv, Named, Upstream
  <2> QED
    BY <2>1, Names DEF Meter
<1> HIDE DEF q
<1>4. PICK n \in Nat : /\ debt' \in [Quote -> Nat] /\ debt'[q] = debt[q] + n
                       /\ \A p \in Quote : p # q => debt'[p] = debt[p]
  <2>1. CASE debt[q] = 0
    BY <1>0, <1>1, <1>2, <2>1
  <2>2. CASE debt[q] # 0
    <3>1. debt' = debt
      BY <1>0, <1>1, <2>2
    <3> QED
      BY <1>0, <3>1
  <2> QED
    BY <2>1, <2>2
<1>5. IsFiniteSet(Units(debt'))
  BY <1>0, <1>4, TotalDeposit
<1> QED
  BY <1>3, <1>4, <1>5 DEF NewDebts

LEMMA NextDebt ==
    GateInv /\ AdmissionInv /\ ServedInv /\ DebtInv /\ [Next]_vars => DebtInv'
<1> SUFFICES ASSUME GateInv, AdmissionInv, ServedInv, DebtInv, [Next]_vars PROVE DebtInv'
  OBVIOUS
<1>1. IsFiniteSet(Units(debt')) /\ \A q \in NewDebts : row'[q].hash # NoHash
  <2>1. CASE UNCHANGED debt
    BY <2>1, NoNewDebts DEF DebtInv
  <2>2. ASSUME NEW s \in Slot, Meter(s)
        PROVE  IsFiniteSet(Units(debt')) /\ \A q \in NewDebts : row'[q].hash # NoHash
    BY <2>2, MeterDebts DEF DebtInv
  <2> QED
    BY <2>1, <2>2, DebtsMove
<1>2. DebtsBound'
  <2>1. RowsKept
    BY NextRows DEF GateInv
  <2> SUFFICES ASSUME NEW q \in Quote, debt'[q] > 0 PROVE row'[q].hash # NoHash
    BY DEF DebtsBound
  <2>2. CASE debt[q] > 0
    BY <2>1, <2>2 DEF DebtInv, DebtsBound, RowsKept
  <2>3. CASE ~(debt[q] > 0)
    BY <1>1, <2>3 DEF NewDebts
  <2> QED
    BY <2>2, <2>3
<1>3. ASSUME NEW s \in Slot, req'[s].pc = "confirm", req'[s].kind = "chat"
      PROVE  StillOpen(req'[s].hash) \subseteq req'[s].missed
  <2> DEFINE h == req[s].hash
  <2>1. req'[s].hash = h /\ (Waits(s) \/ Cleared(s))
    BY <1>3, NextReady DEF Ready
  <2>2. h \in DOMAIN tx
    <3>1. req[s].pc \in Checked
      BY <2>1 DEF Waits, Cleared, ReadDebt, SettleDebts, At, Checked
    <3> QED
      BY <3>1 DEF AdmissionInv, Verified, WasPaid
  <2>3. StillOpen(h) \subseteq (OpenDebts(h) \ settled') \union NewDebts
    BY <2>2, DebtsStay DEF DebtInv
  <2>4. CASE Waits(s)
    <3>1. OpenDebts(h) \subseteq req[s].missed
      BY <2>4 DEF Waits, DebtInv, NoAdmissionWhileOwing
    <3> QED
      BY <2>1, <2>3, <2>4, <3>1 DEF Waits
  <2>5. CASE ReadDebt(s) /\ OpenDebt(h) = 0
    <3>1. OpenDebts(h) = {}
      BY <2>5, NothingOwed DEF DebtInv
    <3>2. NewDebts = {}
      BY <2>5, NoNewDebts DEF ReadDebt, ledgers
    <3> QED
      BY <2>1, <2>3, <3>1, <3>2
  <2>6. CASE SettleDebts(s)
    <3>1. OpenDebts(h) \subseteq settled'
      BY <2>6 DEF SettleDebts
    <3>2. NewDebts = {}
      BY <2>6, NoNewDebts DEF SettleDebts
    <3> QED
      BY <2>1, <2>3, <3>1, <3>2
  <2> QED
    BY <2>1, <2>4, <2>5, <2>6 DEF Cleared
<1>4. NoAdmissionWhileOwing'
  BY <1>3 DEF NoAdmissionWhileOwing, At, OpenDebts, StillOpen
<1> QED
  BY <1>1, <1>2, <1>4 DEF DebtInv

(* No chat request takes its row while its payer owes the provider for     *)
(* anything recorded before the request looked.                            *)
THEOREM NoAdmissionWhileOwingAlways == Spec => []NoAdmissionWhileOwing
<1>1. Init => DebtInv
  <2> SUFFICES ASSUME Init PROVE DebtInv
    OBVIOUS
  <2>1. debt \in [Quote -> Nat] /\ \A q \in Quote : debt[q] = 0
    BY DEF Init
  <2>2. IsFiniteSet(Units(debt))
    BY <2>1, TotalZero
  <2>3. \A s \in Slot : req[s].pc = "idle"
    BY DEF Init, Idle
  <2> QED
    BY <2>1, <2>2, <2>3 DEF DebtInv, DebtsBound, NoAdmissionWhileOwing, At
<1>2. DebtInv => NoAdmissionWhileOwing
  BY DEF DebtInv
<1> QED
  BY <1>1, <1>2, InitInv, NextInv, InitAdmission, NextAdmission, InitServed, NextServed,
     NextDebt, PTL DEF Spec

===============================================================================
