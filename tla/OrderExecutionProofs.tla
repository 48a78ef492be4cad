------------------------ MODULE OrderExecutionProofs ------------------------
(***************************************************************************)
(* Proofs about OrderExecution, for any set of orders, any retry and       *)
(* quarantine settings and any number of faults and crashes.  The          *)
(* inductive invariant says, for each point an execution can be suspended  *)
(* at, what is then true of its current transaction and of the records.    *)
(***************************************************************************)
EXTENDS OrderExecution, FiniteSetTheorems, TLAPS

Unsettled(o, a) == chain[<<o, a>>] \in {"live", "landed"}
Excused(o, a) == <<o, a>> \in doubt \/ faults[o] > 0
OutcomeRow(o, a) == [order |-> o, attempt |-> a, filled |-> TRUE]

\* Attempts are numbered from 1, and there is none before the first quote.
AttemptNumbered ==
    \A o \in Order :
        /\ pc[o] \in (Waiting \cup Running) \ {"quote"} => attempt[o] \in 1..MaxAttempts
        /\ pc[o] \in {"new", "quote"} => attempt[o] = 0

\* What each stage of an attempt knows of its transaction.
StageTxOf(o) ==
    /\ pc[o] \in {"build", "bundle"} => chain[CurrentTx(o)] = "unsent"
    /\ pc[o] = "send" /\ Unsettled(o, attempt[o]) => CurrentTx(o) \in doubt
    /\ pc[o] \in {"meta", "outcome", "order", "route"} => chain[CurrentTx(o)] = "landed"
    /\ pc[o] \in {"caught", "giveUp"} /\ Unsettled(o, attempt[o]) => Excused(o, attempt[o])
StageTx == \A o \in Order : StageTxOf(o)

\* What each stage of an attempt has recorded.
StageRecord ==
    \A o \in Order :
        /\ pc[o] \in {"outcome", "order", "route"} => CurrentTx(o) \in fills
        /\ pc[o] \in {"order", "route"} => OutcomeRow(o, attempt[o]) \in outcomes
        /\ pc[o] = "route" => status[o] = "FILLED"

\* No transaction of a later attempt has been sent, and one of an earlier
\* attempt that landed, or still may, is one the executor could not be sure of.
OtherAttempt(o, a) ==
    /\ a > attempt[o] => chain[<<o, a>>] = "unsent"
    /\ a < attempt[o] /\ Unsettled(o, a) => Excused(o, a)
OtherAttempts == \A o \in Order, a \in 1..MaxAttempts : OtherAttempt(o, a)

\* The last transaction of an execution that has ended.
LastAttemptOf(o, a) ==
    pc[o] = "done" /\ a = attempt[o] /\ Unsettled(o, a) /\ <<o, a>> \notin fills
        => Excused(o, a) \/ o \in lost
LastAttempt == \A o \in Order, a \in 1..MaxAttempts : LastAttemptOf(o, a)

\* At most one fill per failed write, and one more from the moment it is
\* recorded to the end of the execution.
FillCountOf(o) ==
    Cardinality(fills \cap TxOf(o))
        <= IF pc[o] \in {"outcome", "order", "route", "done"} THEN faults[o] + 1 ELSE faults[o]
FillCount == \A o \in Order : FillCountOf(o)

\* StatusTellsFills, for one order.
StatusOf(o) ==
    /\ status[o] = "FILLED" => fills \cap TxOf(o) # {}
    /\ pc[o] = "done" /\ fills \cap TxOf(o) # {} /\ faults[o] = 0 /\ o \notin lost
          => status[o] = "FILLED"

IInv ==
    /\ TypeOK
    /\ RecordedOnlyIfLanded
    /\ AttemptNumbered
    /\ StageTx
    /\ StageRecord
    /\ OtherAttempts
    /\ LastAttempt
    /\ FillCount
    /\ StatusTellsFills

-----------------------------------------------------------------------------
(* Types *)

NextAttempt(o) ==
    /\ attempt[o] < MaxAttempts
    /\ attempt' = [attempt EXCEPT ![o] = @ + 1]
    /\ Goto(o, "build")

LEMMA CaughtCases ==
    ASSUME NEW o, Caught(o)
    PROVE  \/ Goto(o, "done") /\ UNCHANGED attempt
           \/ NextAttempt(o)
           \/ Goto(o, "giveUp") /\ UNCHANGED attempt
  BY DEF Caught, NextAttempt

LEMMA BroadcastTyped ==
    ASSUME TypeOK, NEW o \in Order, CurrentTx(o) \in Tx, Broadcast(o)
    PROVE  /\ chain' \in [Tx -> {"unsent", "live", "landed", "reverted", "expired"}]
           /\ chain'[CurrentTx(o)] = IF chain[CurrentTx(o)] = "unsent"
                                     THEN "live" ELSE chain[CurrentTx(o)]
           /\ \A t \in Tx : t # CurrentTx(o) => chain'[t] = chain[t]
  BY DEF TypeOK, Broadcast

\* Every step keeps every variable in its set and the attempts numbered.
LEMMA TypeStep ==
    ASSUME TypeOK, AttemptNumbered, [Next]_vars
    PROVE  TypeOK' /\ AttemptNumbered'
<1>. USE ConstantsAssumption DEF ConstantsAssumption, TypeOK, AttemptNumbered, Waiting, Running, Tx,
                                 CurrentTx, Goto, Resume, recordVars, historyVars
<1>1. ASSUME NEW o \in Order, Skip(o) PROVE TypeOK' /\ AttemptNumbered'
  BY <1>1 DEF Skip
<1>2. ASSUME NEW o \in Order, Accept(o) PROVE TypeOK' /\ AttemptNumbered'
  BY <1>2 DEF Accept
<1>3. ASSUME NEW o \in Order, AcceptFault(o) PROVE TypeOK' /\ AttemptNumbered'
  BY <1>3 DEF AcceptFault, WriteFails
<1>4. ASSUME NEW o \in Order, Quote(o) PROVE TypeOK' /\ AttemptNumbered'
  <2>1. CASE StartAttempts(o)
    BY <1>4, <2>1 DEF Quote, StartAttempts
  <2>2. CASE Goto(o, "done") /\ UNCHANGED attempt
    BY <1>4, <2>2 DEF Quote
  <2>. QED
    BY <1>4, <2>1, <2>2 DEF Quote
<1>5. ASSUME NEW o \in Order, ShadowFault(o) PROVE TypeOK' /\ AttemptNumbered'
  BY <1>5 DEF ShadowFault, StartAttempts, WriteFails
<1>6. ASSUME NEW o \in Order, Build(o) PROVE TypeOK' /\ AttemptNumbered'
  BY <1>6 DEF Build
<1>7. ASSUME NEW o \in Order, SendBundle(o) PROVE TypeOK' /\ AttemptNumbered'
  BY <1>7 DEF SendBundle, Broadcast
<1>8. ASSUME NEW o \in Order, SendBundleThrows(o) PROVE TypeOK' /\ AttemptNumbered'
  <2>1. <<o, attempt[o]>> \in Order \X (1..MaxAttempts)
    BY <1>8 DEF SendBundleThrows
  <2>2. chain' \in [Tx -> {"unsent", "live", "landed", "reverted", "expired"}]
    <3>1. CASE Broadcast(o)
      BY <2>1, <3>1, BroadcastTyped
    <3>2. CASE UNCHANGED chain
      BY <3>2
    <3>. QED
      BY <1>8, <3>1, <3>2 DEF SendBundleThrows
  <2>3. doubt' \in SUBSET (Order \X (1..MaxAttempts))
    BY <1>8, <2>1 DEF SendBundleThrows
  <2>4. pc' \in [Order -> {"new", "done"} \cup Waiting \cup Running]
    BY <1>8 DEF SendBundleThrows
  <2>. QED
    BY <1>8, <2>2, <2>3, <2>4 DEF SendBundleThrows
<1>9. ASSUME NEW o \in Order, SendPrimary(o) PROVE TypeOK' /\ AttemptNumbered'
  BY <1>9 DEF SendPrimary, Broadcast
<1>10. ASSUME NEW o \in Order, SendPrimaryThrows(o) PROVE TypeOK' /\ AttemptNumbered'
  <2>1. <<o, attempt[o]>> \in Order \X (1..MaxAttempts)
    BY <1>10 DEF SendPrimaryThrows
  <2>2. chain' \in [Tx -> {"unsent", "live", "landed", "reverted", "expired"}]
    <3>1. CASE Broadcast(o)
      BY <2>1, <3>1, BroadcastTyped
    <3>2. CASE UNCHANGED chain
      BY <3>2
    <3>. QED
      BY <1>10, <3>1, <3>2 DEF SendPrimaryThrows
  <2>3. doubt' \in SUBSET (Order \X (1..MaxAttempts))
    BY <1>10, <2>1 DEF SendPrimaryThrows
  <2>4. pc' \in [Order -> {"new", "done"} \cup Waiting \cup Running]
    BY <1>10 DEF SendPrimaryThrows
  <2>. QED
    BY <1>10, <2>2, <2>3, <2>4 DEF SendPrimaryThrows
<1>11. ASSUME NEW o \in Order, Confirmed(o) PROVE TypeOK' /\ AttemptNumbered'
  BY <1>11 DEF Confirmed
<1>12. ASSUME NEW o \in Order, ConfirmedErr(o) PROVE TypeOK' /\ AttemptNumbered'
  BY <1>12 DEF ConfirmedErr, Fallback
<1>13. ASSUME NEW o \in Order, ConfirmThrows(o) PROVE TypeOK' /\ AttemptNumbered'
  BY <1>13 DEF ConfirmThrows, Fallback
<1>14. ASSUME NEW o \in Order, RecordFill(o) PROVE TypeOK' /\ AttemptNumbered'
  BY <1>14 DEF RecordFill
<1>15. ASSUME NEW o \in Order, RecordOutcome(o) PROVE TypeOK' /\ AttemptNumbered'
  <2>1. [order |-> o, attempt |-> attempt[o], filled |-> TRUE]
             \in [order : Order, attempt : 1..MaxAttempts, filled : BOOLEAN]
    BY <1>15 DEF RecordOutcome
  <2>2. outcomes' \in SUBSET [order : Order, attempt : 1..MaxAttempts, filled : BOOLEAN]
    BY <1>15, <2>1 DEF RecordOutcome
  <2>. QED
    BY <1>15, <2>2 DEF RecordOutcome
<1>16. ASSUME NEW o \in Order, RecordOrder(o) PROVE TypeOK' /\ AttemptNumbered'
  BY <1>16 DEF RecordOrder
<1>17. ASSUME NEW o \in Order, RecordRoute(o) PROVE TypeOK' /\ AttemptNumbered'
  BY <1>17 DEF RecordRoute, Counted
<1>18. ASSUME NEW o \in Order, RecordFault(o) PROVE TypeOK' /\ AttemptNumbered'
  BY <1>18 DEF RecordFault, WriteFails
<1>19. ASSUME NEW o \in Order, Caught(o) PROVE TypeOK' /\ AttemptNumbered'
  <2>1. stats' \in [Window -> [attempts : Nat, fails : Nat]]
    BY <1>19 DEF Caught, Counted
  <2>2. CASE NextAttempt(o)
    <3>1. attempt[o] \in 1..MaxAttempts /\ attempt[o] + 1 \in 1..MaxAttempts
      BY <1>19, <2>2 DEF Caught, NextAttempt
    <3>2. UNCHANGED <<windowOf, chain, status, fills, outcomes, events, window, faults, doubt,
           lost, crashes>>
      BY <1>19 DEF Caught
    <3>3. attempt' \in [Order -> 0..MaxAttempts] /\ pc' \in [Order -> {"new",
           "done"} \cup Waiting \cup Running]
      BY <2>2, <3>1 DEF NextAttempt
    <3>4. AttemptNumbered'
      BY <2>2, <3>1 DEF NextAttempt
    <3>. QED
      BY <2>1, <3>2, <3>3, <3>4
  <2>3. CASE Goto(o, "done") /\ UNCHANGED attempt
    BY <1>19, <2>1, <2>3 DEF Caught
  <2>4. CASE Goto(o, "giveUp") /\ UNCHANGED attempt
    BY <1>19, <2>1, <2>4 DEF Caught
  <2>. QED
    BY <1>19, <2>2, <2>3, <2>4, CaughtCases
<1>20. ASSUME NEW o \in Order, GiveUp(o) PROVE TypeOK' /\ AttemptNumbered'
  BY <1>20 DEF GiveUp
<1>21. ASSUME NEW o \in Order, EndFault(o) PROVE TypeOK' /\ AttemptNumbered'
  BY <1>21 DEF EndFault, WriteFails
<1>22. ASSUME NEW t \in Tx, Settle(t) PROVE TypeOK' /\ AttemptNumbered'
  BY <1>22 DEF Settle
<1>23. CASE RollWindow
  <2>1. window' \in Window
    BY <1>23 DEF RollWindow, Window
  <2>. QED
    BY <1>23, <2>1 DEF RollWindow
<1>24. CASE Crash
  BY <1>24 DEF Crash
<1>25. CASE UNCHANGED vars
  BY <1>25 DEF vars
<1>. QED
  BY <1>1, <1>2, <1>3, <1>4, <1>5, <1>6, <1>7, <1>8, <1>9, <1>10, <1>11, <1>12, <1>13, <1>14,
     <1>15, <1>16, <1>17, <1>18, <1>19, <1>20, <1>21, <1>22, <1>23, <1>24, <1>25 DEF Next, Start,
            Attempt

\* What a stage knows of its transaction survives every step.
LEMMA StageTxStep ==
    ASSUME TypeOK, AttemptNumbered, OtherAttempts, NEW p \in Order, StageTxOf(p), [Next]_vars
    PROVE  StageTxOf(p)'
<1>. USE ConstantsAssumption DEF ConstantsAssumption, StageTxOf, OtherAttempts, OtherAttempt,
         Waiting, Running, Tx, CurrentTx, Goto, Resume, recordVars, historyVars, Unsettled,
                Excused, TypeOK, AttemptNumbered
<1>1. ASSUME NEW o \in Order, Skip(o) PROVE StageTxOf(p)'
  BY <1>1 DEF Skip
<1>2. ASSUME NEW o \in Order, Accept(o) PROVE StageTxOf(p)'
  BY <1>2 DEF Accept
<1>3. ASSUME NEW o \in Order, AcceptFault(o) PROVE StageTxOf(p)'
  BY <1>3 DEF AcceptFault, WriteFails
<1>4. ASSUME NEW o \in Order, Quote(o) PROVE StageTxOf(p)'
  <2>1. 1 \in 1..MaxAttempts /\ OtherAttempt(o, 1)
    OBVIOUS
  <2>2. attempt[o] = 0
    BY <1>4 DEF Quote
  <2>3. chain[<<o, 1>>] = "unsent"
    BY <2>1, <2>2
  <2>4. CASE StartAttempts(o)
    <3>1. UNCHANGED <<chain, doubt>>
      BY <1>4 DEF Quote
    <3>2. pc'[o] = "build" /\ attempt'[o] = 1
      BY <2>4 DEF StartAttempts
    <3>3. p # o => pc'[p] = pc[p] /\ attempt'[p] = attempt[p] /\ faults'[p] = faults[p]
      BY <1>4, <2>4 DEF Quote, StartAttempts, WriteFails
    <3>. QED
      BY <2>3, <3>1, <3>2, <3>3
  <2>5. CASE Goto(o, "done") /\ UNCHANGED attempt
    BY <1>4, <2>5 DEF Quote, WriteFails
  <2>. QED
    BY <1>4, <2>4, <2>5 DEF Quote
<1>5. ASSUME NEW o \in Order, ShadowFault(o) PROVE StageTxOf(p)'
  <2>1. 1 \in 1..MaxAttempts /\ OtherAttempt(o, 1)
    OBVIOUS
  <2>2. attempt[o] = 0
    BY <1>5 DEF ShadowFault
  <2>3. chain[<<o, 1>>] = "unsent"
    BY <2>1, <2>2
  <2>4. CASE StartAttempts(o)
    <3>1. UNCHANGED <<chain, doubt>>
      BY <1>5 DEF ShadowFault
    <3>2. pc'[o] = "build" /\ attempt'[o] = 1
      BY <2>4 DEF StartAttempts
    <3>3. p # o => pc'[p] = pc[p] /\ attempt'[p] = attempt[p] /\ faults'[p] = faults[p]
      BY <1>5, <2>4 DEF ShadowFault, StartAttempts, WriteFails
    <3>. QED
      BY <2>3, <3>1, <3>2, <3>3
  <2>5. CASE Goto(o, "done") /\ UNCHANGED attempt
    BY <1>5, <2>5 DEF ShadowFault, WriteFails
  <2>. QED
    BY <1>5, <2>4, <2>5 DEF ShadowFault
<1>6. ASSUME NEW o \in Order, Build(o) PROVE StageTxOf(p)'
  BY <1>6 DEF Build
<1>7. ASSUME NEW o \in Order, SendBundle(o) PROVE StageTxOf(p)'
  BY <1>7 DEF SendBundle, Broadcast
<1>8. ASSUME NEW o \in Order, SendBundleThrows(o) PROVE StageTxOf(p)'
  BY <1>8 DEF SendBundleThrows, Broadcast
<1>9. ASSUME NEW o \in Order, SendPrimary(o) PROVE StageTxOf(p)'
  BY <1>9 DEF SendPrimary, Broadcast
<1>10. ASSUME NEW o \in Order, SendPrimaryThrows(o) PROVE StageTxOf(p)'
  <2>1. CASE Broadcast(o)
    BY <1>10, <2>1 DEF SendPrimaryThrows, Broadcast
  <2>2. CASE UNCHANGED chain
    BY <1>10, <2>2 DEF SendPrimaryThrows
  <2>. QED
    BY <1>10, <2>1, <2>2 DEF SendPrimaryThrows
<1>11. ASSUME NEW o \in Order, Confirmed(o) PROVE StageTxOf(p)'
  BY <1>11 DEF Confirmed
<1>12. ASSUME NEW o \in Order, ConfirmedErr(o) PROVE StageTxOf(p)'
  BY <1>12 DEF ConfirmedErr, Fallback
<1>13. ASSUME NEW o \in Order, ConfirmThrows(o) PROVE StageTxOf(p)'
  BY <1>13 DEF ConfirmThrows, Fallback
<1>14. ASSUME NEW o \in Order, RecordFill(o) PROVE StageTxOf(p)'
  BY <1>14 DEF RecordFill
<1>15. ASSUME NEW o \in Order, RecordOutcome(o) PROVE StageTxOf(p)'
  BY <1>15 DEF RecordOutcome
<1>16. ASSUME NEW o \in Order, RecordOrder(o) PROVE StageTxOf(p)'
  BY <1>16 DEF RecordOrder
<1>17. ASSUME NEW o \in Order, RecordRoute(o) PROVE StageTxOf(p)'
  BY <1>17 DEF RecordRoute, Counted
<1>18. ASSUME NEW o \in Order, RecordFault(o) PROVE StageTxOf(p)'
  BY <1>18 DEF RecordFault, WriteFails
<1>19. ASSUME NEW o \in Order, Caught(o) PROVE StageTxOf(p)'
  <2>1. CASE NextAttempt(o)
    <3>1. attempt[o] + 1 \in 1..MaxAttempts
      BY <1>19, <2>1 DEF NextAttempt, Caught
    <3>2. chain[<<o, attempt[o] + 1>>] = "unsent"
      BY <1>19, <3>1 DEF Caught
    <3>. QED
      BY <1>19, <2>1, <3>1, <3>2 DEF NextAttempt, Caught
  <2>2. CASE UNCHANGED attempt /\ (Goto(o, "done") \/ Goto(o, "giveUp"))
    BY <1>19, <2>2 DEF Caught
  <2>. QED
    BY <1>19, <2>1, <2>2, CaughtCases
<1>20. ASSUME NEW o \in Order, GiveUp(o) PROVE StageTxOf(p)'
  BY <1>20 DEF GiveUp
<1>21. ASSUME NEW o \in Order, EndFault(o) PROVE StageTxOf(p)'
  BY <1>21 DEF EndFault, WriteFails
<1>22. ASSUME NEW t \in Tx, Settle(t) PROVE StageTxOf(p)'
  BY <1>22 DEF Settle
<1>23. CASE RollWindow
  BY <1>23 DEF RollWindow
<1>24. CASE Crash
  BY <1>24 DEF Crash
<1>25. CASE UNCHANGED vars
  BY <1>25 DEF vars
<1>. QED
  BY <1>1, <1>2, <1>3, <1>4, <1>5, <1>6, <1>7, <1>8, <1>9, <1>10, <1>11, <1>12, <1>13, <1>14,
     <1>15, <1>16, <1>17, <1>18, <1>19, <1>20, <1>21, <1>22, <1>23, <1>24, <1>25 DEF Next, Start,
            Attempt

\* What a stage has recorded is never taken back.
LEMMA StageRecordStep ==
    ASSUME TypeOK, AttemptNumbered, StageRecord, [Next]_vars
    PROVE  StageRecord'
<1>. USE ConstantsAssumption DEF ConstantsAssumption, StageRecord, OutcomeRow, Waiting, Running,
         Tx, CurrentTx, Goto, Resume, recordVars, historyVars, Unsettled, Excused, TypeOK,
                AttemptNumbered
<1>1. ASSUME NEW o \in Order, Skip(o) PROVE StageRecord'
  BY <1>1 DEF Skip
<1>2. ASSUME NEW o \in Order, Accept(o) PROVE StageRecord'
  BY <1>2 DEF Accept
<1>3. ASSUME NEW o \in Order, AcceptFault(o) PROVE StageRecord'
  BY <1>3 DEF AcceptFault, WriteFails
<1>4. ASSUME NEW o \in Order, Quote(o) PROVE StageRecord'
  BY <1>4 DEF Quote, StartAttempts
<1>5. ASSUME NEW o \in Order, ShadowFault(o) PROVE StageRecord'
  BY <1>5 DEF ShadowFault, StartAttempts, WriteFails
<1>6. ASSUME NEW o \in Order, Build(o) PROVE StageRecord'
  BY <1>6 DEF Build
<1>7. ASSUME NEW o \in Order, SendBundle(o) PROVE StageRecord'
  BY <1>7 DEF SendBundle, Broadcast
<1>8. ASSUME NEW o \in Order, SendBundleThrows(o) PROVE StageRecord'
  BY <1>8 DEF SendBundleThrows, Broadcast
<1>9. ASSUME NEW o \in Order, SendPrimary(o) PROVE StageRecord'
  BY <1>9 DEF SendPrimary, Broadcast
<1>10. ASSUME NEW o \in Order, SendPrimaryThrows(o) PROVE StageRecord'
  BY <1>10 DEF SendPrimaryThrows, Broadcast
<1>11. ASSUME NEW o \in Order, Confirmed(o) PROVE StageRecord'
  BY <1>11 DEF Confirmed
<1>12. ASSUME NEW o \in Order, ConfirmedErr(o) PROVE StageRecord'
  BY <1>12 DEF ConfirmedErr, Fallback
<1>13. ASSUME NEW o \in Order, ConfirmThrows(o) PROVE StageRecord'
  BY <1>13 DEF ConfirmThrows, Fallback
<1>14. ASSUME NEW o \in Order, RecordFill(o) PROVE StageRecord'
  BY <1>14 DEF RecordFill
<1>15. ASSUME NEW o \in Order, RecordOutcome(o) PROVE StageRecord'
  BY <1>15 DEF RecordOutcome
<1>16. ASSUME NEW o \in Order, RecordOrder(o) PROVE StageRecord'
  BY <1>16 DEF RecordOrder
<1>17. ASSUME NEW o \in Order, RecordRoute(o) PROVE StageRecord'
  BY <1>17 DEF RecordRoute, Counted
<1>18. ASSUME NEW o \in Order, RecordFault(o) PROVE StageRecord'
  BY <1>18 DEF RecordFault, WriteFails
<1>19. ASSUME NEW o \in Order, Caught(o) PROVE StageRecord'
  BY <1>19 DEF Caught, Counted
<1>20. ASSUME NEW o \in Order, GiveUp(o) PROVE StageRecord'
  BY <1>20 DEF GiveUp
<1>21. ASSUME NEW o \in Order, EndFault(o) PROVE StageRecord'
  BY <1>21 DEF EndFault, WriteFails
<1>22. ASSUME NEW t \in Tx, Settle(t) PROVE StageRecord'
  BY <1>22 DEF Settle
<1>23. CASE RollWindow
  BY <1>23 DEF RollWindow
<1>24. CASE Crash
  BY <1>24 DEF Crash
<1>25. CASE UNCHANGED vars
  BY <1>25 DEF vars
<1>. QED
  BY <1>1, <1>2, <1>3, <1>4, <1>5, <1>6, <1>7, <1>8, <1>9, <1>10, <1>11, <1>12, <1>13, <1>14,
     <1>15, <1>16, <1>17, <1>18, <1>19, <1>20, <1>21, <1>22, <1>23, <1>24, <1>25 DEF Next, Start,
            Attempt

\* Moving on to another attempt leaves no transaction behind but doubtful ones.
LEMMA OtherAttemptsStep ==
    ASSUME TypeOK, AttemptNumbered, StageTx, NEW p \in Order, NEW a \in 1..MaxAttempts,
           OtherAttempt(p, a), [Next]_vars
    PROVE  OtherAttempt(p, a)'
<1>. USE ConstantsAssumption DEF ConstantsAssumption, OtherAttempt, StageTx, StageTxOf, Waiting,
         Running, Tx, CurrentTx, Goto, Resume, recordVars, historyVars, Unsettled, Excused,
                TypeOK, AttemptNumbered
<1>1. ASSUME NEW o \in Order, Skip(o) PROVE OtherAttempt(p, a)'
  BY <1>1 DEF Skip
<1>2. ASSUME NEW o \in Order, Accept(o) PROVE OtherAttempt(p, a)'
  BY <1>2 DEF Accept
<1>3. ASSUME NEW o \in Order, AcceptFault(o) PROVE OtherAttempt(p, a)'
  BY <1>3 DEF AcceptFault, WriteFails
<1>4. ASSUME NEW o \in Order, Quote(o) PROVE OtherAttempt(p, a)'
  BY <1>4 DEF Quote, StartAttempts
<1>5. ASSUME NEW o \in Order, ShadowFault(o) PROVE OtherAttempt(p, a)'
  BY <1>5 DEF ShadowFault, StartAttempts, WriteFails
<1>6. ASSUME NEW o \in Order, Build(o) PROVE OtherAttempt(p, a)'
  BY <1>6 DEF Build
<1>7. ASSUME NEW o \in Order, SendBundle(o) PROVE OtherAttempt(p, a)'
  BY <1>7 DEF SendBundle, Broadcast
<1>8. ASSUME NEW o \in Order, SendBundleThrows(o) PROVE OtherAttempt(p, a)'
  BY <1>8 DEF SendBundleThrows, Broadcast
<1>9. ASSUME NEW o \in Order, SendPrimary(o) PROVE OtherAttempt(p, a)'
  BY <1>9 DEF SendPrimary, Broadcast
<1>10. ASSUME NEW o \in Order, SendPrimaryThrows(o) PROVE OtherAttempt(p, a)'
  BY <1>10 DEF SendPrimaryThrows, Broadcast
<1>11. ASSUME NEW o \in Order, Confirmed(o) PROVE OtherAttempt(p, a)'
  BY <1>11 DEF Confirmed
<1>12. ASSUME NEW o \in Order, ConfirmedErr(o) PROVE OtherAttempt(p, a)'
  BY <1>12 DEF ConfirmedErr, Fallback
<1>13. ASSUME NEW o \in Order, ConfirmThrows(o) PROVE OtherAttempt(p, a)'
  BY <1>13 DEF ConfirmThrows, Fallback
<1>14. ASSUME NEW o \in Order, RecordFill(o) PROVE OtherAttempt(p, a)'
  BY <1>14 DEF RecordFill
<1>15. ASSUME NEW o \in Order, RecordOutcome(o) PROVE OtherAttempt(p, a)'
  BY <1>15 DEF RecordOutcome
<1>16. ASSUME NEW o \in Order, RecordOrder(o) PROVE OtherAttempt(p, a)'
  BY <1>16 DEF RecordOrder
<1>17. ASSUME NEW o \in Order, RecordRoute(o) PROVE OtherAttempt(p, a)'
  BY <1>17 DEF RecordRoute, Counted
<1>18. ASSUME NEW o \in Order, RecordFault(o) PROVE OtherAttempt(p, a)'
  BY <1>18 DEF RecordFault, WriteFails
<1>19. ASSUME NEW o \in Order, Caught(o) PROVE OtherAttempt(p, a)'
  BY <1>19 DEF Caught, Counted
<1>20. ASSUME NEW o \in Order, GiveUp(o) PROVE OtherAttempt(p, a)'
  BY <1>20 DEF GiveUp
<1>21. ASSUME NEW o \in Order, EndFault(o) PROVE OtherAttempt(p, a)'
  BY <1>21 DEF EndFault, WriteFails
<1>22. ASSUME NEW t \in Tx, Settle(t) PROVE OtherAttempt(p, a)'
  <2>. HIDE DEF StageTx, StageTxOf, TypeOK, Tx, OtherAttempt, AttemptNumbered
  <2>1. /\ attempt' = attempt /\ doubt' = doubt /\ faults' = faults
        /\ chain[t] = "live"
        /\ \E c \in {"landed", "reverted", "expired"} : chain' = [chain EXCEPT ![t] = c]
    BY <1>22 DEF Settle
  <2>2. <<p, a>> \in Tx /\ DOMAIN chain = Tx
    BY DEF Tx, TypeOK
  <2>3. /\ t = <<p, a>> => chain'[<<p, a>>] \in {"landed", "reverted", "expired"}
        /\ t # <<p, a>> => chain'[<<p, a>>] = chain[<<p, a>>]
    BY <2>1, <2>2
  <2>. QED
    BY <2>1, <2>3 DEF OtherAttempt
<1>23. CASE RollWindow
  BY <1>23 DEF RollWindow
<1>24. CASE Crash
  BY <1>24 DEF Crash
<1>25. CASE UNCHANGED vars
  BY <1>25 DEF vars
<1>. QED
  BY <1>1, <1>2, <1>3, <1>4, <1>5, <1>6, <1>7, <1>8, <1>9, <1>10, <1>11, <1>12, <1>13, <1>14,
     <1>15, <1>16, <1>17, <1>18, <1>19, <1>20, <1>21, <1>22, <1>23, <1>24, <1>25 DEF Next, Start,
            Attempt

\* An execution ends with its transaction recorded, excused or lost.
LEMMA LastAttemptStep ==
    ASSUME TypeOK, AttemptNumbered, StageTx, StageRecord, NEW p \in Order,
           NEW a \in 1..MaxAttempts, LastAttemptOf(p, a), [Next]_vars
    PROVE  LastAttemptOf(p, a)'
<1>. USE ConstantsAssumption DEF ConstantsAssumption, StageTx, StageTxOf, StageRecord,
         LastAttemptOf, Waiting, Running, Tx, CurrentTx, Goto, Resume, recordVars, historyVars,
                Unsettled, Excused, TypeOK, AttemptNumbered
<1>1. ASSUME NEW o \in Order, Skip(o) PROVE LastAttemptOf(p, a)'
  BY <1>1 DEF Skip
<1>2. ASSUME NEW o \in Order, Accept(o) PROVE LastAttemptOf(p, a)'
  BY <1>2 DEF Accept
<1>3. ASSUME NEW o \in Order, AcceptFault(o) PROVE LastAttemptOf(p, a)'
  BY <1>3 DEF AcceptFault, WriteFails
<1>4. ASSUME NEW o \in Order, Quote(o) PROVE LastAttemptOf(p, a)'
  BY <1>4 DEF Quote, StartAttempts
<1>5. ASSUME NEW o \in Order, ShadowFault(o) PROVE LastAttemptOf(p, a)'
  BY <1>5 DEF ShadowFault, StartAttempts, WriteFails
<1>6. ASSUME NEW o \in Order, Build(o) PROVE LastAttemptOf(p, a)'
  BY <1>6 DEF Build
<1>7. ASSUME NEW o \in Order, SendBundle(o) PROVE LastAttemptOf(p, a)'
  BY <1>7 DEF SendBundle, Broadcast
<1>8. ASSUME NEW o \in Order, SendBundleThrows(o) PROVE LastAttemptOf(p, a)'
  BY <1>8 DEF SendBundleThrows, Broadcast
<1>9. ASSUME NEW o \in Order, SendPrimary(o) PROVE LastAttemptOf(p, a)'
  BY <1>9 DEF SendPrimary, Broadcast
<1>10. ASSUME NEW o \in Order, SendPrimaryThrows(o) PROVE LastAttemptOf(p, a)'
  BY <1>10 DEF SendPrimaryThrows, Broadcast
<1>11. ASSUME NEW o \in Order, Confirmed(o) PROVE LastAttemptOf(p, a)'
  BY <1>11 DEF Confirmed
<1>12. ASSUME NEW o \in Order, ConfirmedErr(o) PROVE LastAttemptOf(p, a)'
  BY <1>12 DEF ConfirmedErr, Fallback
<1>13. ASSUME NEW o \in Order, ConfirmThrows(o) PROVE LastAttemptOf(p, a)'
  BY <1>13 DEF ConfirmThrows, Fallback
<1>14. ASSUME NEW o \in Order, RecordFill(o) PROVE LastAttemptOf(p, a)'
  BY <1>14 DEF RecordFill
<1>15. ASSUME NEW o \in Order, RecordOutcome(o) PROVE LastAttemptOf(p, a)'
  BY <1>15 DEF RecordOutcome
<1>16. ASSUME NEW o \in Order, RecordOrder(o) PROVE LastAttemptOf(p, a)'
  BY <1>16 DEF RecordOrder
<1>17. ASSUME NEW o \in Order, RecordRoute(o) PROVE LastAttemptOf(p, a)'
  BY <1>17 DEF RecordRoute, Counted
<1>18. ASSUME NEW o \in Order, RecordFault(o) PROVE LastAttemptOf(p, a)'
  BY <1>18 DEF RecordFault, WriteFails
<1>19. ASSUME NEW o \in Order, Caught(o) PROVE LastAttemptOf(p, a)'
  BY <1>19 DEF Caught, Counted
<1>20. ASSUME NEW o \in Order, GiveUp(o) PROVE LastAttemptOf(p, a)'
  BY <1>20 DEF GiveUp
<1>21. ASSUME NEW o \in Order, EndFault(o) PROVE LastAttemptOf(p, a)'
  BY <1>21 DEF EndFault, WriteFails
<1>22. ASSUME NEW t \in Tx, Settle(t) PROVE LastAttemptOf(p, a)'
  <2>1. CASE t = <<p, a>>
    BY <1>22, <2>1 DEF Settle
  <2>2. CASE t # <<p, a>>
    BY <1>22, <2>2 DEF Settle
  <2>. QED
    BY <2>1, <2>2
<1>23. CASE RollWindow
  BY <1>23 DEF RollWindow
<1>24. CASE Crash
  BY <1>24 DEF Crash
<1>25. CASE UNCHANGED vars
  BY <1>25 DEF vars
<1>. QED
  BY <1>1, <1>2, <1>3, <1>4, <1>5, <1>6, <1>7, <1>8, <1>9, <1>10, <1>11, <1>12, <1>13, <1>14,
     <1>15, <1>16, <1>17, <1>18, <1>19, <1>20, <1>21, <1>22, <1>23, <1>24, <1>25 DEF Next, Start,
            Attempt

\* Fills, outcomes and events are only added for landed transactions.
LEMMA RecordedStep ==
    ASSUME TypeOK, AttemptNumbered, StageTx, StageRecord, RecordedOnlyIfLanded, [Next]_vars
    PROVE  RecordedOnlyIfLanded'
<1>. USE ConstantsAssumption DEF ConstantsAssumption, StageTx, StageTxOf, StageRecord,
         RecordedOnlyIfLanded, Landed, OutcomeRow, Waiting, Running, Tx, CurrentTx, Goto, Resume,
                recordVars, historyVars, Unsettled, Excused, TypeOK, AttemptNumbered
<1>1. ASSUME NEW o \in Order, Skip(o) PROVE RecordedOnlyIfLanded'
  BY <1>1 DEF Skip
<1>2. ASSUME NEW o \in Order, Accept(o) PROVE RecordedOnlyIfLanded'
  BY <1>2 DEF Accept
<1>3. ASSUME NEW o \in Order, AcceptFault(o) PROVE RecordedOnlyIfLanded'
  BY <1>3 DEF AcceptFault, WriteFails
<1>4. ASSUME NEW o \in Order, Quote(o) PROVE RecordedOnlyIfLanded'
  BY <1>4 DEF Quote, StartAttempts
<1>5. ASSUME NEW o \in Order, ShadowFault(o) PROVE RecordedOnlyIfLanded'
  BY <1>5 DEF ShadowFault, StartAttempts, WriteFails
<1>6. ASSUME NEW o \in Order, Build(o) PROVE RecordedOnlyIfLanded'
  BY <1>6 DEF Build
<1>7. ASSUME NEW o \in Order, SendBundle(o) PROVE RecordedOnlyIfLanded'
  BY <1>7 DEF SendBundle, Broadcast
<1>8. ASSUME NEW o \in Order, SendBundleThrows(o) PROVE RecordedOnlyIfLanded'
  BY <1>8 DEF SendBundleThrows, Broadcast
<1>9. ASSUME NEW o \in Order, SendPrimary(o) PROVE RecordedOnlyIfLanded'
  BY <1>9 DEF SendPrimary, Broadcast
<1>10. ASSUME NEW o \in Order, SendPrimaryThrows(o) PROVE RecordedOnlyIfLanded'
  <2>1. CASE Broadcast(o)
    BY <1>10, <2>1 DEF SendPrimaryThrows, Broadcast
  <2>2. CASE UNCHANGED chain
    BY <1>10, <2>2 DEF SendPrimaryThrows
  <2>. QED
    BY <1>10, <2>1, <2>2 DEF SendPrimaryThrows
<1>11. ASSUME NEW o \in Order, Confirmed(o) PROVE RecordedOnlyIfLanded'
  BY <1>11 DEF Confirmed
<1>12. ASSUME NEW o \in Order, ConfirmedErr(o) PROVE RecordedOnlyIfLanded'
  BY <1>12 DEF ConfirmedErr, Fallback
<1>13. ASSUME NEW o \in Order, ConfirmThrows(o) PROVE RecordedOnlyIfLanded'
  BY <1>13 DEF ConfirmThrows, Fallback
<1>14. ASSUME NEW o \in Order, RecordFill(o) PROVE RecordedOnlyIfLanded'
  BY <1>14 DEF RecordFill
<1>15. ASSUME NEW o \in Order, RecordOutcome(o) PROVE RecordedOnlyIfLanded'
  BY <1>15 DEF RecordOutcome
<1>16. ASSUME NEW o \in Order, RecordOrder(o) PROVE RecordedOnlyIfLanded'
  BY <1>16 DEF RecordOrder
<1>17. ASSUME NEW o \in Order, RecordRoute(o) PROVE RecordedOnlyIfLanded'
  BY <1>17 DEF RecordRoute, Counted
<1>18. ASSUME NEW o \in Order, RecordFault(o) PROVE RecordedOnlyIfLanded'
  BY <1>18 DEF RecordFault, WriteFails
<1>19. ASSUME NEW o \in Order, Caught(o) PROVE RecordedOnlyIfLanded'
  BY <1>19 DEF Caught, Counted
<1>20. ASSUME NEW o \in Order, GiveUp(o) PROVE RecordedOnlyIfLanded'
  BY <1>20 DEF GiveUp
<1>21. ASSUME NEW o \in Order, EndFault(o) PROVE RecordedOnlyIfLanded'
  BY <1>21 DEF EndFault, WriteFails
<1>22. ASSUME NEW t \in Tx, Settle(t) PROVE RecordedOnlyIfLanded'
  BY <1>22 DEF Settle
<1>23. CASE RollWindow
  BY <1>23 DEF RollWindow
<1>24. CASE Crash
  BY <1>24 DEF Crash
<1>25. CASE UNCHANGED vars
  BY <1>25 DEF vars
<1>. QED
  BY <1>1, <1>2, <1>3, <1>4, <1>5, <1>6, <1>7, <1>8, <1>9, <1>10, <1>11, <1>12, <1>13, <1>14,
     <1>15, <1>16, <1>17, <1>18, <1>19, <1>20, <1>21, <1>22, <1>23, <1>24, <1>25 DEF Next, Start,
            Attempt

LEMMA OneMore ==
    ASSUME NEW S, NEW x, IsFiniteSet(S)
    PROVE  Cardinality(S \cup {x}) \in 0..(Cardinality(S) + 1)
<1>1. Cardinality(S) \in Nat /\ Cardinality(S \cup {x}) \in Nat
  BY FS_AddElement, FS_CardinalityType
<1>2. Cardinality(S \cup {x}) = IF x \in S THEN Cardinality(S) ELSE Cardinality(S) + 1
  BY FS_AddElement
<1>. QED
  BY <1>1, <1>2

\* The fills of an order are finitely many.
LEMMA FillsFinite ==
    ASSUME TypeOK, NEW o \in Order
    PROVE  /\ IsFiniteSet(fills \cap TxOf(o))
           /\ Cardinality(fills \cap TxOf(o)) \in Nat
<1>1. IsFiniteSet(1..MaxAttempts)
  BY FS_Interval, ConstantsAssumption DEF ConstantsAssumption
<1>2. IsFiniteSet(Tx)
  BY <1>1, FS_Product, ConstantsAssumption DEF ConstantsAssumption, Tx
<1>3. fills \cap TxOf(o) \subseteq Tx
  BY DEF TxOf
<1>. QED
  BY <1>2, <1>3, FS_Subset, FS_CardinalityType


\* A fill is recorded once per attempt that was confirmed.
LEMMA FillCountStep ==
    ASSUME TypeOK, AttemptNumbered, NEW p \in Order, FillCountOf(p),
           Cardinality(fills \cap TxOf(p)) \in Nat, [Next]_vars
    PROVE  FillCountOf(p)'
<1>. USE ConstantsAssumption DEF ConstantsAssumption, FillCountOf, TxOf, Waiting, Running, Tx,
         CurrentTx, Goto, Resume, recordVars, historyVars, Unsettled, Excused, TypeOK,
                AttemptNumbered
<1>1. ASSUME NEW o \in Order, Skip(o) PROVE FillCountOf(p)'
  BY <1>1 DEF Skip
<1>2. ASSUME NEW o \in Order, Accept(o) PROVE FillCountOf(p)'
  BY <1>2 DEF Accept
<1>3. ASSUME NEW o \in Order, AcceptFault(o) PROVE FillCountOf(p)'
  BY <1>3 DEF AcceptFault, WriteFails
<1>4. ASSUME NEW o \in Order, Quote(o) PROVE FillCountOf(p)'
  BY <1>4 DEF Quote, StartAttempts
<1>5. ASSUME NEW o \in Order, ShadowFault(o) PROVE FillCountOf(p)'
  BY <1>5 DEF ShadowFault, StartAttempts, WriteFails
<1>6. ASSUME NEW o \in Order, Build(o) PROVE FillCountOf(p)'
  BY <1>6 DEF Build
<1>7. ASSUME NEW o \in Order, SendBundle(o) PROVE FillCountOf(p)'
  BY <1>7 DEF SendBundle, Broadcast
<1>8. ASSUME NEW o \in Order, SendBundleThrows(o) PROVE FillCountOf(p)'
  BY <1>8 DEF SendBundleThrows, Broadcast
<1>9. ASSUME NEW o \in Order, SendPrimary(o) PROVE FillCountOf(p)'
  BY <1>9 DEF SendPrimary, Broadcast
<1>10. ASSUME NEW o \in Order, SendPrimaryThrows(o) PROVE FillCountOf(p)'
  BY <1>10 DEF SendPrimaryThrows, Broadcast
<1>11. ASSUME NEW o \in Order, Confirmed(o) PROVE FillCountOf(p)'
  BY <1>11 DEF Confirmed
<1>12. ASSUME NEW o \in Order, ConfirmedErr(o) PROVE FillCountOf(p)'
  BY <1>12 DEF ConfirmedErr, Fallback
<1>13. ASSUME NEW o \in Order, ConfirmThrows(o) PROVE FillCountOf(p)'
  BY <1>13 DEF ConfirmThrows, Fallback
<1>14. ASSUME NEW o \in Order, RecordFill(o) PROVE FillCountOf(p)'
  <2>1. CASE p = o
    <3>1. fills' \cap TxOf(p) = (fills \cap TxOf(p)) \cup {CurrentTx(o)}
      BY <1>14, <2>1 DEF RecordFill, TxOf
    <3>2. Cardinality(fills' \cap TxOf(p)) \in 0..(Cardinality(fills \cap TxOf(p)) + 1)
      BY <3>1, FillsFinite, OneMore
    <3>. QED
      BY <1>14, <2>1, <3>2 DEF RecordFill
  <2>2. CASE p # o
    <3>1. fills' \cap TxOf(p) = fills \cap TxOf(p)
      BY <1>14, <2>2 DEF RecordFill, TxOf
    <3>. QED
      BY <1>14, <2>2, <3>1 DEF RecordFill
  <2>. QED
    BY <2>1, <2>2
<1>15. ASSUME NEW o \in Order, RecordOutcome(o) PROVE FillCountOf(p)'
  BY <1>15 DEF RecordOutcome
<1>16. ASSUME NEW o \in Order, RecordOrder(o) PROVE FillCountOf(p)'
  BY <1>16 DEF RecordOrder
<1>17. ASSUME NEW o \in Order, RecordRoute(o) PROVE FillCountOf(p)'
  BY <1>17 DEF RecordRoute, Counted
<1>18. ASSUME NEW o \in Order, RecordFault(o) PROVE FillCountOf(p)'
  BY <1>18 DEF RecordFault, WriteFails
<1>19. ASSUME NEW o \in Order, Caught(o) PROVE FillCountOf(p)'
  BY <1>19 DEF Caught, Counted
<1>20. ASSUME NEW o \in Order, GiveUp(o) PROVE FillCountOf(p)'
  BY <1>20 DEF GiveUp
<1>21. ASSUME NEW o \in Order, EndFault(o) PROVE FillCountOf(p)'
  BY <1>21 DEF EndFault, WriteFails
<1>22. ASSUME NEW t \in Tx, Settle(t) PROVE FillCountOf(p)'
  BY <1>22 DEF Settle
<1>23. CASE RollWindow
  BY <1>23 DEF RollWindow
<1>24. CASE Crash
  BY <1>24 DEF Crash
<1>25. CASE UNCHANGED vars
  BY <1>25 DEF vars
<1>. QED
  BY <1>1, <1>2, <1>3, <1>4, <1>5, <1>6, <1>7, <1>8, <1>9, <1>10, <1>11, <1>12, <1>13, <1>14,
     <1>15, <1>16, <1>17, <1>18, <1>19, <1>20, <1>21, <1>22, <1>23, <1>24, <1>25 DEF Next, Start,
            Attempt

NoFillYet(o) ==
    pc[o] \in {"new"} \cup Waiting \cup {"caught", "giveUp"} /\ faults[o] = 0
        => fills \cap TxOf(o) = {}

\* Without failed writes there is no fill before an attempt is confirmed.
LEMMA CountZero ==
    ASSUME TypeOK, NEW o \in Order, FillCountOf(o)
    PROVE  NoFillYet(o)
<1>1. SUFFICES ASSUME pc[o] \in {"new"} \cup Waiting \cup {"caught", "giveUp"}, faults[o] = 0
               PROVE  fills \cap TxOf(o) = {}
  BY DEF NoFillYet
<1>2. Cardinality(fills \cap TxOf(o)) <= 0
  BY <1>1 DEF FillCountOf, Waiting
<1>. QED
  BY <1>2, FillsFinite, FS_EmptySet


\* The status tells the fills.
LEMMA StatusStep ==
    ASSUME TypeOK, AttemptNumbered, NEW p \in Order, StatusOf(p), StageRecord, NoFillYet(p),
           [Next]_vars
    PROVE  StatusOf(p)'
<1>. USE ConstantsAssumption DEF ConstantsAssumption, StatusOf, StageRecord, NoFillYet, TxOf,
         Waiting, Running, Tx, CurrentTx, Goto, Resume, recordVars, historyVars, Unsettled,
                Excused, TypeOK, AttemptNumbered
<1>1. ASSUME NEW o \in Order, Skip(o) PROVE StatusOf(p)'
  BY <1>1 DEF Skip
<1>2. ASSUME NEW o \in Order, Accept(o) PROVE StatusOf(p)'
  BY <1>2 DEF Accept
<1>3. ASSUME NEW o \in Order, AcceptFault(o) PROVE StatusOf(p)'
  BY <1>3 DEF AcceptFault, WriteFails
<1>4. ASSUME NEW o \in Order, Quote(o) PROVE StatusOf(p)'
  BY <1>4 DEF Quote, StartAttempts
<1>5. ASSUME NEW o \in Order, ShadowFault(o) PROVE StatusOf(p)'
  BY <1>5 DEF ShadowFault, StartAttempts, WriteFails
<1>6. ASSUME NEW o \in Order, Build(o) PROVE StatusOf(p)'
  BY <1>6 DEF Build
<1>7. ASSUME NEW o \in Order, SendBundle(o) PROVE StatusOf(p)'
  BY <1>7 DEF SendBundle, Broadcast
<1>8. ASSUME NEW o \in Order, SendBundleThrows(o) PROVE StatusOf(p)'
  BY <1>8 DEF SendBundleThrows, Broadcast
<1>9. ASSUME NEW o \in Order, SendPrimary(o) PROVE StatusOf(p)'
  BY <1>9 DEF SendPrimary, Broadcast
<1>10. ASSUME NEW o \in Order, SendPrimaryThrows(o) PROVE StatusOf(p)'
  BY <1>10 DEF SendPrimaryThrows, Broadcast
<1>11. ASSUME NEW o \in Order, Confirmed(o) PROVE StatusOf(p)'
  BY <1>11 DEF Confirmed
<1>12. ASSUME NEW o \in Order, ConfirmedErr(o) PROVE StatusOf(p)'
  BY <1>12 DEF ConfirmedErr, Fallback
<1>13. ASSUME NEW o \in Order, ConfirmThrows(o) PROVE StatusOf(p)'
  BY <1>13 DEF ConfirmThrows, Fallback
<1>14. ASSUME NEW o \in Order, RecordFill(o) PROVE StatusOf(p)'
  BY <1>14 DEF RecordFill
<1>15. ASSUME NEW o \in Order, RecordOutcome(o) PROVE StatusOf(p)'
  BY <1>15 DEF RecordOutcome
<1>16. ASSUME NEW o \in Order, RecordOrder(o) PROVE StatusOf(p)'
  <2>1. CurrentTx(o) \in fills \cap TxOf(o)
    BY <1>16 DEF RecordOrder
  <2>. QED
    BY <1>16, <2>1 DEF RecordOrder
<1>17. ASSUME NEW o \in Order, RecordRoute(o) PROVE StatusOf(p)'
  BY <1>17 DEF RecordRoute, Counted
<1>18. ASSUME NEW o \in Order, RecordFault(o) PROVE StatusOf(p)'
  BY <1>18 DEF RecordFault, WriteFails
<1>19. ASSUME NEW o \in Order, Caught(o) PROVE StatusOf(p)'
  BY <1>19 DEF Caught, Counted
<1>20. ASSUME NEW o \in Order, GiveUp(o) PROVE StatusOf(p)'
  BY <1>20 DEF GiveUp
<1>21. ASSUME NEW o \in Order, EndFault(o) PROVE StatusOf(p)'
  BY <1>21 DEF EndFault, WriteFails
<1>22. ASSUME NEW t \in Tx, Settle(t) PROVE StatusOf(p)'
  BY <1>22 DEF Settle
<1>23. CASE RollWindow
  BY <1>23 DEF RollWindow
<1>24. CASE Crash
  BY <1>24 DEF Crash
<1>25. CASE UNCHANGED vars
  BY <1>25 DEF vars
<1>. QED
  BY <1>1, <1>2, <1>3, <1>4, <1>5, <1>6, <1>7, <1>8, <1>9, <1>10, <1>11, <1>12, <1>13, <1>14,
     <1>15, <1>16, <1>17, <1>18, <1>19, <1>20, <1>21, <1>22, <1>23, <1>24, <1>25 DEF Next, Start,
            Attempt

-----------------------------------------------------------------------------
(* The inductive invariant *)

LEMMA InitIInv == Init => IInv
<1>. SUFFICES ASSUME Init PROVE IInv
  OBVIOUS
<1>1. TypeOK /\ AttemptNumbered
  BY ConstantsAssumption
     DEF ConstantsAssumption, Init, TypeOK, AttemptNumbered, Waiting, Running, Window, Tx
<1>2. StageTx /\ StageRecord /\ OtherAttempts /\ LastAttempt
  BY DEF Init, StageTx, StageTxOf, StageRecord, OtherAttempts, OtherAttempt, LastAttempt,
         LastAttemptOf, Tx, Unsettled
<1>3. RecordedOnlyIfLanded
  BY DEF Init, RecordedOnlyIfLanded
<1>4. \A o \in Order : fills \cap TxOf(o) = {} /\ Cardinality(fills \cap TxOf(o)) = 0
  BY FS_EmptySet DEF Init
<1>5. FillCount
  BY <1>4 DEF Init, FillCount, FillCountOf
<1>6. StatusTellsFills
  BY <1>4 DEF Init, StatusTellsFills
<1>. QED
  BY <1>1, <1>2, <1>3, <1>5, <1>6 DEF IInv

LEMMA NextIInv == IInv /\ [Next]_vars => IInv'
<1>. SUFFICES ASSUME IInv, [Next]_vars PROVE IInv'
  OBVIOUS
<1>1. TypeOK' /\ AttemptNumbered'
  BY TypeStep DEF IInv
<1>2. StageTx'
  BY StageTxStep DEF IInv, StageTx
<1>3. StageRecord'
  BY StageRecordStep DEF IInv
<1>4. OtherAttempts'
  BY OtherAttemptsStep DEF IInv, OtherAttempts
<1>5. LastAttempt'
  BY LastAttemptStep DEF IInv, LastAttempt
<1>6. RecordedOnlyIfLanded'
  BY RecordedStep DEF IInv
<1>7. FillCount'
  BY FillCountStep, FillsFinite DEF IInv, FillCount
<1>8. StatusTellsFills'
  <2>1. \A o \in Order : StatusOf(o)
    BY DEF IInv, StatusTellsFills, StatusOf
  <2>2. \A o \in Order : StatusOf(o)'
    BY <2>1, StatusStep, CountZero DEF IInv, FillCount
  <2>. QED
    BY <2>2 DEF StatusTellsFills, StatusOf
<1>. QED
  BY <1>1, <1>2, <1>3, <1>4, <1>5, <1>6, <1>7, <1>8 DEF IInv

LEMMA SpecIInv == Spec => []IInv
  BY InitIInv, NextIInv, PTL DEF Spec

-----------------------------------------------------------------------------
(* The properties *)

\* executePlan and the sender keep every variable in its type: among others, an
\* order is never in an attempt beyond MAX_RETRIES.
THEOREM TypeCorrect == Spec => []TypeOK
<1>1. IInv => TypeOK
  BY DEF IInv
<1>. QED
  BY <1>1, SpecIInv, PTL

\* Fills, outcomes and emitted events only ever report transactions that landed,
\* each after the one before it, through any failed write and any crash.
THEOREM RecordIsTrue == Spec => []RecordedOnlyIfLanded
<1>1. IInv => RecordedOnlyIfLanded
  BY DEF IInv
<1>. QED
  BY <1>1, SpecIInv, PTL

\* A landed transaction is missing from the fills table only for the reasons
\* LandedIsRecorded lists.
THEOREM LandedIsAccountedFor == Spec => []LandedIsRecorded
<1>1. IInv => LandedIsRecorded
  <2>. SUFFICES ASSUME IInv, NEW o \in Order, NEW a \in 1..MaxAttempts,
                       chain[<<o, a>>] = "landed", <<o, a>> \notin fills,
                       ~ Excused(o, a), o \notin lost
                PROVE  a = attempt[o] /\ pc[o] \in {"bundleConfirm", "confirm", "send", "meta"}
    BY DEF LandedIsRecorded, Landed, Tx, Excused
  <2>1. a = attempt[o]
    <3>1. OtherAttempt(o, a) /\ a \in Nat /\ attempt[o] \in Nat
      BY ConstantsAssumption DEF ConstantsAssumption, IInv, OtherAttempts, TypeOK
    <3>. QED
      BY <3>1 DEF OtherAttempt, Unsettled
  <2>2. pc[o] \notin {"build", "bundle", "outcome", "order", "route", "caught", "giveUp"}
    BY <2>1 DEF IInv, StageTx, StageTxOf, StageRecord, CurrentTx, Unsettled
  <2>3. pc[o] # "done"
    BY <2>1 DEF IInv, LastAttempt, LastAttemptOf, Unsettled
  <2>4. pc[o] \notin {"new", "quote"}
    BY <2>1 DEF IInv, AttemptNumbered
  <2>. QED
    BY <2>1, <2>2, <2>3, <2>4 DEF IInv, TypeOK, Waiting, Running
<1>. QED
  BY <1>1, SpecIInv, PTL

\* An order is tried again after its transaction landed only when a send or a
\* confirmation threw for that transaction, or a write failed.
THEOREM NoBlindRetry == Spec => []RetryOnlyInDoubt
<1>1. IInv => RetryOnlyInDoubt
  BY DEF IInv, RetryOnlyInDoubt, OtherAttempts, OtherAttempt, Landed, Tx, Unsettled, Excused
<1>. QED
  BY <1>1, SpecIInv, PTL

\* An order never has more fills than one and the writes that failed for it.
THEOREM FillsAreBounded == Spec => []FillsPerOrder
<1>1. IInv => FillsPerOrder
  <2>. SUFFICES ASSUME IInv, NEW o \in Order
                PROVE  Cardinality(fills \cap TxOf(o)) <= 1 + faults[o]
    BY DEF FillsPerOrder
  <2>1. FillCountOf(o) /\ TypeOK
    BY DEF IInv, FillCount
  <2>2. Cardinality(fills \cap TxOf(o)) \in Nat
    BY <2>1, FillsFinite
  <2>3. faults[o] \in Nat
    BY <2>1, ConstantsAssumption DEF ConstantsAssumption, TypeOK
  <2>. QED
    BY <2>1, <2>2, <2>3 DEF FillCountOf
<1>. QED
  BY <1>1, SpecIInv, PTL

\* The status of an order agrees with the fills table.
THEOREM StatusIsRight == Spec => []StatusTellsFills
<1>1. IInv => StatusTellsFills
  BY DEF IInv
<1>. QED
  BY <1>1, SpecIInv, PTL

\* An attempt follows another only where the statistics, with the failure that
\* ended the other counted in, do not quarantine the route.
THEOREM QuarantineStopsRetries == Spec => NoRetryIntoQuarantine
<1>1. IInv /\ [Next]_vars => [RetryAllowed]_vars
  <2>. SUFFICES ASSUME IInv, Next, NEW p \in Order, attempt'[p] > attempt[p], attempt[p] > 0
                PROVE  ~ Excluded(stats'[windowOf[p]])
    BY DEF RetryAllowed
  <2>. USE DEF Goto
  <2>1. attempt \in [Order -> Nat]
    BY ConstantsAssumption DEF ConstantsAssumption, IInv, TypeOK
  <2>2. ASSUME NEW o \in Order, Caught(o) PROVE ~ Excluded(stats'[windowOf[p]])
    <3>1. p = o
      BY <2>1, <2>2, CaughtCases DEF NextAttempt
    <3>2. attempt' # attempt
      BY <2>1
    <3>. QED
      BY <2>1, <2>2, <3>1, <3>2 DEF Caught
  <2>3. ASSUME NEW o \in Order, Quote(o) \/ ShadowFault(o) PROVE FALSE
    <3>1. attempt[o] = 0
      BY <2>3 DEF IInv, AttemptNumbered, Quote, ShadowFault, Resume
    <3>. QED
      BY <2>1, <2>3, <3>1 DEF Quote, ShadowFault, StartAttempts
  <2>4. attempt' # attempt
    BY <2>1
  <2>. QED
    BY <2>2, <2>3, <2>4 DEF Next, Start, Attempt, Skip, Accept, AcceptFault, Build, SendBundle,
       SendBundleThrows, SendPrimary, SendPrimaryThrows, Confirmed, ConfirmedErr, ConfirmThrows,
              RecordFill, RecordOutcome, RecordOrder, RecordRoute, RecordFault, GiveUp, EndFault,
                     Settle, RollWindow, Crash
<1>. QED
  BY <1>1, SpecIInv, PTL DEF Spec, NoRetryIntoQuarantine

-----------------------------------------------------------------------------
(* Refinement *)

\* The status and the events of an execution none of whose writes failed.
Undisturbed(o) ==
    faults[o] = 0 =>
        /\ pc[o] = "new" => status[o] = "NONE"
        /\ pc[o] \in Waiting \cup {"outcome", "order", "caught", "giveUp"} => status[o] = "PENDING"
        /\ pc[o] \in {"new"} \cup Waiting \cup {"outcome", "order", "caught", "giveUp"}
              => events \cap TxOf(o) = {}

\* Steps of any execution leave that so.
LEMMA UndisturbedStep ==
    ASSUME TypeOK, AttemptNumbered, NEW p \in Order, Undisturbed(p), [Next]_vars
    PROVE  Undisturbed(p)'
<1>. USE ConstantsAssumption DEF ConstantsAssumption, Undisturbed, TxOf, Waiting, Running, Tx,
         CurrentTx, Goto, Resume, recordVars, historyVars, Unsettled, Excused, TypeOK,
                AttemptNumbered
<1>1. ASSUME NEW o \in Order, Skip(o) PROVE Undisturbed(p)'
  BY <1>1 DEF Skip
<1>2. ASSUME NEW o \in Order, Accept(o) PROVE Undisturbed(p)'
  BY <1>2 DEF Accept
<1>3. ASSUME NEW o \in Order, AcceptFault(o) PROVE Undisturbed(p)'
  BY <1>3 DEF AcceptFault, WriteFails
<1>4. ASSUME NEW o \in Order, Quote(o) PROVE Undisturbed(p)'
  BY <1>4 DEF Quote, StartAttempts
<1>5. ASSUME NEW o \in Order, ShadowFault(o) PROVE Undisturbed(p)'
  BY <1>5 DEF ShadowFault, StartAttempts, WriteFails
<1>6. ASSUME NEW o \in Order, Build(o) PROVE Undisturbed(p)'
  BY <1>6 DEF Build
<1>7. ASSUME NEW o \in Order, SendBundle(o) PROVE Undisturbed(p)'
  BY <1>7 DEF SendBundle, Broadcast
<1>8. ASSUME NEW o \in Order, SendBundleThrows(o) PROVE Undisturbed(p)'
  BY <1>8 DEF SendBundleThrows, Broadcast
<1>9. ASSUME NEW o \in Order, SendPrimary(o) PROVE Undisturbed(p)'
  BY <1>9 DEF SendPrimary, Broadcast
<1>10. ASSUME NEW o \in Order, SendPrimaryThrows(o) PROVE Undisturbed(p)'
  BY <1>10 DEF SendPrimaryThrows, Broadcast
<1>11. ASSUME NEW o \in Order, Confirmed(o) PROVE Undisturbed(p)'
  BY <1>11 DEF Confirmed
<1>12. ASSUME NEW o \in Order, ConfirmedErr(o) PROVE Undisturbed(p)'
  BY <1>12 DEF ConfirmedErr, Fallback
<1>13. ASSUME NEW o \in Order, ConfirmThrows(o) PROVE Undisturbed(p)'
  BY <1>13 DEF ConfirmThrows, Fallback
<1>14. ASSUME NEW o \in Order, RecordFill(o) PROVE Undisturbed(p)'
  BY <1>14 DEF RecordFill
<1>15. ASSUME NEW o \in Order, RecordOutcome(o) PROVE Undisturbed(p)'
  BY <1>15 DEF RecordOutcome
<1>16. ASSUME NEW o \in Order, RecordOrder(o) PROVE Undisturbed(p)'
  BY <1>16 DEF RecordOrder
<1>17. ASSUME NEW o \in Order, RecordRoute(o) PROVE Undisturbed(p)'
  BY <1>17 DEF RecordRoute, Counted
<1>18. ASSUME NEW o \in Order, RecordFault(o) PROVE Undisturbed(p)'
  BY <1>18 DEF RecordFault, WriteFails
<1>19. ASSUME NEW o \in Order, Caught(o) PROVE Undisturbed(p)'
  BY <1>19 DEF Caught, Counted
<1>20. ASSUME NEW o \in Order, GiveUp(o) PROVE Undisturbed(p)'
  BY <1>20 DEF GiveUp
<1>21. ASSUME NEW o \in Order, EndFault(o) PROVE Undisturbed(p)'
  BY <1>21 DEF EndFault, WriteFails
<1>22. ASSUME NEW t \in Tx, Settle(t) PROVE Undisturbed(p)'
  BY <1>22 DEF Settle
<1>23. CASE RollWindow
  BY <1>23 DEF RollWindow
<1>24. CASE Crash
  BY <1>24 DEF Crash
<1>25. CASE UNCHANGED vars
  BY <1>25 DEF vars
<1>. QED
  BY <1>1, <1>2, <1>3, <1>4, <1>5, <1>6, <1>7, <1>8, <1>9, <1>10, <1>11, <1>12, <1>13, <1>14,
     <1>15, <1>16, <1>17, <1>18, <1>19, <1>20, <1>21, <1>22, <1>23, <1>24, <1>25 DEF Next, Start,
            Attempt

-----------------------------------------------------------------------------
(* Route statistics *)

Clean == \A o \in Order : faults[o] = 0 /\ o \notin lost

\* What route_stats counts, window by window: the attempts that have ended and
\* the executions that ended with a fill.
EndedIn(w) == {t \in Tx : windowOf[t[1]] = w /\ t[2] <= Ended(t[1])}
FilledIn(w) == {o \in Order : windowOf[o] = w /\ pc[o] = "done" /\ status[o] = "FILLED"}

StatsOf(w) ==
    /\ stats[w].attempts = Cardinality(EndedIn(w))
    /\ stats[w].attempts - stats[w].fails = Cardinality(FilledIn(w))

\* Nothing that is counted of execution p changes in this step.
StatsQuiet(p) ==
    /\ Ended(p)' = Ended(p)
    /\ windowOf'[p] # windowOf[p] => Ended(p) = 0
    /\ pc'[p] = "done" /\ status'[p] = "FILLED" <=> pc[p] = "done" /\ status[p] = "FILLED"
    /\ windowOf'[p] # windowOf[p] => ~ (pc[p] = "done" /\ status[p] = "FILLED")

LEMMA CleanBefore ==
    ASSUME TypeOK, [Next]_vars, Clean'
    PROVE  Clean
<1>1. ASSUME NEW o \in Order, WriteFails(o) PROVE FALSE
  <2>1. faults'[o] = faults[o] + 1
    BY <1>1 DEF WriteFails, TypeOK
  <2>2. faults'[o] = 0
    BY DEF Clean
  <2>. QED
    BY <2>1, <2>2, ConstantsAssumption DEF TypeOK, ConstantsAssumption
<1>2. faults' = faults /\ lost \subseteq lost'
  BY <1>1 DEF Next, Start, Attempt, Skip, Accept, AcceptFault, Quote, ShadowFault, Build,
     SendBundle, SendBundleThrows, SendPrimary, SendPrimaryThrows, Confirmed, ConfirmedErr,
     ConfirmThrows, RecordFill, RecordOutcome, RecordOrder, RecordRoute, RecordFault, Caught,
     GiveUp, EndFault, Settle, RollWindow, Crash, vars, historyVars
<1>. QED
  BY <1>2 DEF Clean

\* A step other than the end of p's own attempt is quiet for p.
LEMMA QuietStep ==
    ASSUME TypeOK, AttemptNumbered, NEW p \in Order, Undisturbed(p), faults[p] = 0,
           faults'[p] = 0, p \notin lost', [Next]_vars,
           ~ RecordRoute(p), ~ Caught(p)
    PROVE  StatsQuiet(p)
<1>. USE ConstantsAssumption DEF ConstantsAssumption, Undisturbed, Waiting, Running, Tx, StatsQuiet,
         CurrentTx, Goto, Resume, recordVars, historyVars, TypeOK, AttemptNumbered, Ended
<1>1. ASSUME NEW o \in Order, Skip(o) PROVE StatsQuiet(p)
  BY <1>1 DEF Skip
<1>2. ASSUME NEW o \in Order, Accept(o) PROVE StatsQuiet(p)
  BY <1>2 DEF Accept
<1>3. ASSUME NEW o \in Order, AcceptFault(o) PROVE StatsQuiet(p)
  BY <1>3 DEF AcceptFault, WriteFails
<1>4. ASSUME NEW o \in Order, Quote(o) PROVE StatsQuiet(p)
  BY <1>4 DEF Quote, StartAttempts
<1>5. ASSUME NEW o \in Order, ShadowFault(o) PROVE StatsQuiet(p)
  BY <1>5 DEF ShadowFault, StartAttempts, WriteFails
<1>6. ASSUME NEW o \in Order, Build(o) PROVE StatsQuiet(p)
  BY <1>6 DEF Build
<1>7. ASSUME NEW o \in Order, SendBundle(o) PROVE StatsQuiet(p)
  BY <1>7 DEF SendBundle, Broadcast
<1>8. ASSUME NEW o \in Order, SendBundleThrows(o) PROVE StatsQuiet(p)
  BY <1>8 DEF SendBundleThrows, Broadcast
<1>9. ASSUME NEW o \in Order, SendPrimary(o) PROVE StatsQuiet(p)
  BY <1>9 DEF SendPrimary, Broadcast
<1>10. ASSUME NEW o \in Order, SendPrimaryThrows(o) PROVE StatsQuiet(p)
  BY <1>10 DEF SendPrimaryThrows, Broadcast
<1>11. ASSUME NEW o \in Order, Confirmed(o) PROVE StatsQuiet(p)
  BY <1>11 DEF Confirmed
<1>12. ASSUME NEW o \in Order, ConfirmedErr(o) PROVE StatsQuiet(p)
  BY <1>12 DEF ConfirmedErr, Fallback
<1>13. ASSUME NEW o \in Order, ConfirmThrows(o) PROVE StatsQuiet(p)
  BY <1>13 DEF ConfirmThrows, Fallback
<1>14. ASSUME NEW o \in Order, RecordFill(o) PROVE StatsQuiet(p)
  BY <1>14 DEF RecordFill
<1>15. ASSUME NEW o \in Order, RecordOutcome(o) PROVE StatsQuiet(p)
  BY <1>15 DEF RecordOutcome
<1>16. ASSUME NEW o \in Order, RecordOrder(o) PROVE StatsQuiet(p)
  BY <1>16 DEF RecordOrder
<1>17. ASSUME NEW o \in Order, RecordRoute(o), p # o PROVE StatsQuiet(p)
  BY <1>17 DEF RecordRoute, Counted
<1>18. ASSUME NEW o \in Order, RecordFault(o) PROVE StatsQuiet(p)
  BY <1>18 DEF RecordFault, WriteFails
<1>19. ASSUME NEW o \in Order, Caught(o), p # o PROVE StatsQuiet(p)
  BY <1>19 DEF Caught, Counted
<1>20. ASSUME NEW o \in Order, GiveUp(o) PROVE StatsQuiet(p)
  BY <1>20 DEF GiveUp
<1>21. ASSUME NEW o \in Order, EndFault(o) PROVE StatsQuiet(p)
  BY <1>21 DEF EndFault, WriteFails
<1>22. ASSUME NEW t \in Tx, Settle(t) PROVE StatsQuiet(p)
  BY <1>22 DEF Settle
<1>23. CASE RollWindow
  BY <1>23 DEF RollWindow
<1>24. CASE Crash
  BY <1>24 DEF Crash
<1>25. CASE UNCHANGED vars
  BY <1>25 DEF vars
<1>. QED
  BY <1>1, <1>2, <1>3, <1>4, <1>5, <1>6, <1>7, <1>8, <1>9, <1>10, <1>11, <1>12, <1>13, <1>14,
     <1>15, <1>16, <1>17, <1>18, <1>19, <1>20, <1>21, <1>22, <1>23, <1>24, <1>25 DEF Next, Start,
            Attempt

\* The counted sets are finite.
LEMMA CountedFinite ==
    ASSUME NEW w
    PROVE  IsFiniteSet(EndedIn(w)) /\ IsFiniteSet(FilledIn(w))
<1>1. IsFiniteSet(1..MaxAttempts)
  BY FS_Interval, ConstantsAssumption DEF ConstantsAssumption
<1>2. IsFiniteSet(Tx)
  BY <1>1, FS_Product, ConstantsAssumption DEF ConstantsAssumption, Tx
<1>3. IsFiniteSet(Order)
  BY ConstantsAssumption DEF ConstantsAssumption
<1>4. EndedIn(w) \subseteq Tx /\ FilledIn(w) \subseteq Order
  BY DEF EndedIn, FilledIn
<1>. QED
  BY <1>2, <1>3, <1>4, FS_Subset

\* Executions that are quiet leave the counted sets alone.
LEMMA QuietSets ==
    ASSUME NEW w, \A p \in Order : StatsQuiet(p)
    PROVE  EndedIn(w)' = EndedIn(w) /\ FilledIn(w)' = FilledIn(w)
<1>1. ASSUME NEW t \in Tx
      PROVE  windowOf'[t[1]] = w /\ t[2] <= Ended(t[1])' <=> windowOf[t[1]] = w /\ t[2] <= Ended(t[1])
  <2>1. t[1] \in Order /\ t[2] \in 1..MaxAttempts
    BY DEF Tx
  <2>. QED
    BY <2>1, ConstantsAssumption DEF StatsQuiet, ConstantsAssumption
<1>. QED
  BY <1>1 DEF EndedIn, FilledIn, StatsQuiet

\* The end of an attempt: it is the one that is now counted, in the window its
\* execution started in, and as filled when it was recorded.
LEMMA AttemptEnds ==
    ASSUME TypeOK, AttemptNumbered, StageRecord, NEW o \in Order, NEW w,
           RecordRoute(o) \/ Caught(o), Undisturbed(o), faults[o] = 0
    PROVE  /\ stats' = Counted(o, RecordRoute(o))
           /\ CurrentTx(o) \notin EndedIn(w)
           /\ EndedIn(w)' = IF w = windowOf[o] THEN EndedIn(w) \cup {CurrentTx(o)} ELSE EndedIn(w)
           /\ o \notin FilledIn(w)
           /\ FilledIn(w)' = IF w = windowOf[o] /\ RecordRoute(o)
                             THEN FilledIn(w) \cup {o} ELSE FilledIn(w)
<1>1. pc[o] \in {"route", "caught"} /\ attempt[o] \in 1..MaxAttempts /\ Ended(o) = attempt[o] - 1
  BY DEF RecordRoute, Caught, AttemptNumbered, Running, Ended
<1>2. windowOf' = windowOf /\ status' = status
  BY DEF RecordRoute, Caught, recordVars
<1>3. \A p \in Order \ {o} : pc'[p] = pc[p] /\ attempt'[p] = attempt[p]
  BY DEF RecordRoute, Caught, Goto, TypeOK
<1>4. Ended(o)' = attempt[o]
  <2>1. attempt[o] \in Nat /\ attempt[o] + 1 - 1 = attempt[o]
    BY <1>1, ConstantsAssumption DEF ConstantsAssumption
  <2>2. \/ pc'[o] \in {"done", "giveUp"} /\ attempt' = attempt
        \/ pc'[o] = "build" /\ attempt'[o] = attempt[o] + 1
    <3>1. CASE RecordRoute(o)
      BY <3>1 DEF RecordRoute, Goto, TypeOK
    <3>2. CASE Caught(o)
      BY <3>2, CaughtCases DEF NextAttempt, Goto, TypeOK
    <3>. QED
      BY <3>1, <3>2
  <2>. QED
    BY <2>1, <2>2 DEF Ended
<1>5. \A p \in Order \ {o} : Ended(p)' = Ended(p)
  BY <1>3 DEF Ended
<1>6. ASSUME NEW t \in Tx
      PROVE  t \in EndedIn(w)' <=> t \in EndedIn(w) \/ (w = windowOf[o] /\ t = CurrentTx(o))
  <2>1. t = <<t[1], t[2]>> /\ t[1] \in Order /\ t[2] \in 1..MaxAttempts
    BY DEF Tx
  <2>2. CASE t[1] = o
    <3>1. t[2] <= attempt[o] <=> t[2] <= attempt[o] - 1 \/ t[2] = attempt[o]
      BY <1>1, <2>1, ConstantsAssumption DEF ConstantsAssumption
    <3>2. t = CurrentTx(o) <=> t[2] = attempt[o]
      BY <2>1, <2>2 DEF CurrentTx
    <3>. QED
      BY <1>1, <1>2, <1>4, <2>2, <3>1, <3>2 DEF EndedIn
  <2>3. CASE t[1] # o
    BY <1>2, <1>5, <2>1, <2>3 DEF EndedIn, CurrentTx
  <2>. QED
    BY <2>2, <2>3
<1>7. CurrentTx(o) \in Tx /\ CurrentTx(o) \notin EndedIn(w)
  BY <1>1, ConstantsAssumption DEF CurrentTx, Tx, EndedIn, ConstantsAssumption
<1>8. EndedIn(w)' = IF w = windowOf[o] THEN EndedIn(w) \cup {CurrentTx(o)} ELSE EndedIn(w)
  <2>1. EndedIn(w) \subseteq Tx /\ EndedIn(w)' \subseteq Tx
    BY DEF EndedIn
  <2>. QED
    BY <1>6, <1>7, <2>1
<1>9. o \notin FilledIn(w)
  BY <1>1 DEF FilledIn
<1>10. RecordRoute(o) => status[o] = "FILLED"
  BY DEF RecordRoute, StageRecord
<1>11. Caught(o) => status[o] # "FILLED" /\ ~ RecordRoute(o)
  BY DEF Caught, RecordRoute, Undisturbed
<1>12. FilledIn(w)' = IF w = windowOf[o] /\ RecordRoute(o)
                      THEN FilledIn(w) \cup {o} ELSE FilledIn(w)
  <2>1. RecordRoute(o) => pc'[o] = "done"
    BY DEF RecordRoute, Goto, TypeOK
  <2>. QED
    BY <1>2, <1>3, <1>9, <1>10, <1>11, <2>1 DEF FilledIn
<1>13. stats' = Counted(o, RecordRoute(o))
  BY <1>11 DEF RecordRoute, Caught, Counted
<1>. QED
  BY <1>7, <1>8, <1>9, <1>12, <1>13

\* A step keeps the statistics of every window exact.
LEMMA StatsStep ==
    ASSUME IInv, \A o \in Order : Undisturbed(o), [Next]_vars, Clean', Clean,
           NEW w \in Window, StatsOf(w)
    PROVE  StatsOf(w)'
<1>1. CASE \A p \in Order : ~ RecordRoute(p) /\ ~ Caught(p)
  <2>1. \A p \in Order : StatsQuiet(p)
    BY <1>1, QuietStep DEF IInv, Clean
  <2>2. EndedIn(w)' = EndedIn(w) /\ FilledIn(w)' = FilledIn(w)
    BY <2>1, QuietSets
  <2>3. stats' = stats
    BY <1>1 DEF Next, Start, Attempt, Skip, Accept, AcceptFault, Quote, ShadowFault, Build,
       SendBundle, SendBundleThrows, SendPrimary, SendPrimaryThrows, Confirmed, ConfirmedErr,
       ConfirmThrows, RecordFill, RecordOutcome, RecordOrder, RecordFault,
       GiveUp, EndFault, Settle, RollWindow, Crash, vars
  <2>. QED
    BY <2>2, <2>3 DEF StatsOf
<1>2. ASSUME NEW o \in Order, RecordRoute(o) \/ Caught(o) PROVE StatsOf(w)'
  <2>. DEFINE ok == RecordRoute(o)
  <2>1. /\ stats' = Counted(o, ok)
        /\ CurrentTx(o) \notin EndedIn(w)
        /\ EndedIn(w)' = IF w = windowOf[o] THEN EndedIn(w) \cup {CurrentTx(o)} ELSE EndedIn(w)
        /\ o \notin FilledIn(w)
        /\ FilledIn(w)' = IF w = windowOf[o] /\ ok THEN FilledIn(w) \cup {o} ELSE FilledIn(w)
    BY <1>2, AttemptEnds DEF IInv, Clean
  <2>2. ok \in BOOLEAN
    BY DEF RecordRoute
  <2>. HIDE DEF ok
  <2>3. stats[w].attempts \in Nat /\ stats[w].fails \in Nat /\ windowOf[o] \in Window
    BY DEF IInv, TypeOK
  <2>4. /\ stats'[w].attempts = IF w = windowOf[o] THEN stats[w].attempts + 1 ELSE stats[w].attempts
        /\ stats'[w].fails = IF w = windowOf[o] /\ ~ ok THEN stats[w].fails + 1 ELSE stats[w].fails
    BY <2>1, <2>2, <2>3 DEF Counted, IInv, TypeOK
  <2>5. /\ Cardinality(EndedIn(w)') = IF w = windowOf[o] THEN Cardinality(EndedIn(w)) + 1
                                                         ELSE Cardinality(EndedIn(w))
        /\ Cardinality(FilledIn(w)') = IF w = windowOf[o] /\ ok THEN Cardinality(FilledIn(w)) + 1
                                                               ELSE Cardinality(FilledIn(w))
    BY <2>1, CountedFinite, FS_AddElement
  <2>6. stats'[w].attempts - stats'[w].fails =
            IF w = windowOf[o] /\ ok THEN (stats[w].attempts - stats[w].fails) + 1
                                     ELSE stats[w].attempts - stats[w].fails
    BY <2>2, <2>3, <2>4
  <2>. QED
    BY <2>4, <2>5, <2>6 DEF StatsOf
<1>. QED
  BY <1>1, <1>2

LEMMA FirstOfAdded ==
    ASSUME NEW S, NEW x, NEW y
    PROVE  {t[1] : t \in S \cup {<<x, y>>}} = {t[1] : t \in S} \cup {x}
<1>1. <<x, y>>[1] = x
  OBVIOUS
<1>2. \A z : z \in {t[1] : t \in S \cup {<<x, y>>}} <=> z \in {t[1] : t \in S} \cup {x}
  BY <1>1, Zenon
<1>. QED
  BY <1>2, Zenon

\* Each step is a step of the lifecycle or leaves it alone.
LEMMA StepSimulates ==
    ASSUME MaxFaults = 0, TypeOK, StageRecord, [Next]_vars,
           \A o \in Order : Undisturbed(o) /\ NoFillYet(o) /\ faults[o] = 0
    PROVE  [Lifecycle!Next]_(Lifecycle!vars)
<1>1. ASSUME NEW o \in Order, Accept(o) PROVE Lifecycle!Place(o)
  <2>1. status[o] = "NONE"
    BY <1>1 DEF Accept, Resume, Undisturbed
  <2>. QED
    BY <1>1, <2>1 DEF Accept, Lifecycle!Place
<1>2. ASSUME NEW o \in Order, RecordFill(o) PROVE Lifecycle!Trade(o)
  <2>1. status[o] = "PENDING" /\ fills \cap TxOf(o) = {}
    BY <1>2 DEF RecordFill, Resume, Undisturbed, NoFillYet, Waiting
  <2>2. o \notin {t[1] : t \in fills}
    BY <2>1 DEF TypeOK, TxOf
  <2>3. {t[1] : t \in fills'} = {t[1] : t \in fills} \cup {o}
    BY <1>2, FirstOfAdded DEF RecordFill, CurrentTx
  <2>. QED
    BY <1>2, <2>1, <2>2, <2>3 DEF RecordFill, Lifecycle!Trade
<1>3. ASSUME NEW o \in Order, RecordOrder(o) PROVE Lifecycle!Fill(o)
  <2>1. status[o] = "PENDING" /\ events \cap TxOf(o) = {} /\ CurrentTx(o) \in fills
    BY <1>3 DEF RecordOrder, Undisturbed, StageRecord
  <2>2. o \in {t[1] : t \in fills} \ {t[1] : t \in events}
    BY <2>1 DEF TypeOK, TxOf, CurrentTx
  <2>3. {t[1] : t \in events'} = {t[1] : t \in events} \cup {o}
    BY <1>3, FirstOfAdded DEF RecordOrder, CurrentTx
  <2>. QED
    BY <1>3, <2>1, <2>2, <2>3 DEF RecordOrder, Lifecycle!Fill
<1>4. ASSUME NEW o \in Order, GiveUp(o) PROVE Lifecycle!Fail(o)
  <2>1. status[o] = "PENDING" /\ fills \cap TxOf(o) = {}
    BY <1>4 DEF GiveUp, Undisturbed, NoFillYet
  <2>2. o \notin {t[1] : t \in fills}
    BY <2>1 DEF TypeOK, TxOf
  <2>. QED
    BY <1>4, <2>1, <2>2 DEF GiveUp, Lifecycle!Fail
<1>5. ASSUME NEW o \in Order,
       AcceptFault(o) \/ ShadowFault(o) \/ RecordFault(o) \/ EndFault(o) PROVE FALSE
  BY <1>5, MaxFaults = 0 DEF AcceptFault, ShadowFault, RecordFault, EndFault, WriteFails, TypeOK
<1>6. ASSUME NEW o \in Order,
            \/ Skip(o) \/ Quote(o) \/ Build(o) \/ SendBundle(o)
            \/ SendBundleThrows(o) \/ SendPrimary(o) \/ SendPrimaryThrows(o) \/ Confirmed(o)
            \/ ConfirmedErr(o) \/ ConfirmThrows(o) \/ RecordOutcome(o) \/ RecordRoute(o)
            \/ Caught(o)
     PROVE  UNCHANGED Lifecycle!vars
  BY <1>6 DEF Lifecycle!vars, recordVars, Skip, Quote, Build, SendBundle, SendBundleThrows,
     SendPrimary, SendPrimaryThrows, Confirmed, ConfirmedErr, ConfirmThrows, RecordOutcome,
            RecordRoute, Caught
<1>7. ASSUME (\E t \in Tx : Settle(t)) \/ RollWindow \/ Crash \/ UNCHANGED vars
     PROVE  UNCHANGED Lifecycle!vars
  BY <1>7 DEF Lifecycle!vars, recordVars, Settle, RollWindow, Crash, vars
<1>. QED
  BY <1>1, <1>2, <1>3, <1>4, <1>5, <1>6, <1>7 DEF Next, Start, Attempt, Lifecycle!Next

\* While no write fails and the process does not die, route_stats counts every
\* attempt that has ended exactly once, in the window its execution started in.
THEOREM StatisticsAreExact == Spec => []RouteStatsExact
<1>. DEFINE RInv == \A o \in Order : Undisturbed(o)
            SInv == Clean => \A w \in Window : StatsOf(w)
<1>1. Init => RInv
  BY DEF Init, Undisturbed, Waiting
<1>2. IInv /\ RInv /\ [Next]_vars => RInv'
  BY UndisturbedStep DEF IInv
<1>3. Init => SInv
  <2>. SUFFICES ASSUME Init, NEW w \in Window PROVE StatsOf(w)
    OBVIOUS
  <2>1. EndedIn(w) = {} /\ FilledIn(w) = {}
    BY ConstantsAssumption DEF Init, EndedIn, FilledIn, Ended, Tx, ConstantsAssumption
  <2>. QED
    BY <2>1, FS_EmptySet DEF Init, StatsOf
<1>4. IInv /\ RInv /\ SInv /\ [Next]_vars => SInv'
  BY CleanBefore, StatsStep DEF IInv
<1>5. SInv => RouteStatsExact
  BY DEF Clean, StatsOf, EndedIn, FilledIn, RouteStatsExact
<1>. QED
  BY <1>1, <1>2, <1>3, <1>4, <1>5, SpecIInv, PTL DEF Spec

\* With a database that takes every write, executePlan implements
\* OrderLifecycle: one recorded trade per order, announced after it is
\* recorded, and a final status that is never taken back.
THEOREM ImplementsLifecycle ==
    ASSUME MaxFaults = 0
    PROVE  Spec => RefinesLifecycle
<1>. DEFINE RInv == \A o \in Order : Undisturbed(o)
<1>1. Init => Lifecycle!Init
  BY DEF Init, Lifecycle!Init
<1>2. Init => RInv
  BY DEF Init, Undisturbed, Waiting
<1>3. IInv /\ RInv /\ [Next]_vars => RInv'
  BY UndisturbedStep DEF IInv
<1>4. IInv /\ RInv /\ [Next]_vars => [Lifecycle!Next]_(Lifecycle!vars)
  <2>. SUFFICES ASSUME IInv, RInv, [Next]_vars PROVE [Lifecycle!Next]_(Lifecycle!vars)
    OBVIOUS
  <2>1. \A o \in Order : faults[o] = 0
    BY MaxFaults = 0 DEF IInv, TypeOK
  <2>2. \A o \in Order : NoFillYet(o)
    BY CountZero DEF IInv, FillCount
  <2>. QED
    BY <2>1, <2>2, StepSimulates, MaxFaults = 0 DEF IInv
<1>. QED
  BY <1>1, <1>2, <1>3, <1>4, SpecIInv, PTL DEF Spec, RefinesLifecycle, Lifecycle!Spec
=============================================================================
