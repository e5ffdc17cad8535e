------------------------ MODULE SupervisionProofs -------------------------
(***************************************************************************)
(* Proofs about Supervision for every set of positions and symbols, every   *)
(* entry quantity and every bound on trades, restarts and faults.           *)
(***************************************************************************)
EXTENDS Supervision, TLAPS

LEMMA ForgotSweep ==
  ASSUME ForgetSweep
  PROVE  snap' \in [Symbol -> Int] /\ readable' \in SUBSET Symbol
         /\ sweeping' \in BOOLEAN
<1>1. snap' \in [Symbol -> Int]
  BY DEF ForgetSweep
<1>2. readable' \in SUBSET Symbol
  BY DEF ForgetSweep
<1>3. sweeping' \in BOOLEAN
  BY DEF ForgetSweep
<1>4. QED
  BY <1>1, <1>2, <1>3

LEMMA TypeStep ==
  ASSUME TypeOK, ControlInv, [Next]_vars PROVE TypeOK'
  <1> USE SupervisionAssumption DEF TypeOK, ControlInv, States, Live
  <1>1. ASSUME NEW p \in Position, EntryFills(p) PROVE TypeOK'
    BY <1>1 DEF EntryFills, Holds, history, bounds, brakeVars, fillVars, ledgerVars,
         sweepVars
  <1>2. ASSUME NEW p \in Position, ExitFills(p) PROVE TypeOK'
    BY <1>2 DEF ExitFills, Holds, history, bounds, brakeVars, fillVars, ledgerVars,
         sweepVars
  <1>3. ASSUME NEW s \in Symbol, OwnerTrades(s) PROVE TypeOK'
    BY <1>3 DEF OwnerTrades, Holds, history, brakeVars, fillVars, ledgerVars, sweepVars
  <1>4. ASSUME NEW p \in Position, MatchFill(p) PROVE TypeOK'
    BY <1>4 DEF MatchFill, bounds, brakeVars, brokerVars, history, ledgerVars,
         sweepVars
  <1>5. ASSUME RowsShowEntry PROVE TypeOK'
    BY <1>5 DEF RowsShowEntry, bounds, brakeVars, brokerVars, history,
         ledgerVars, sweepVars
  <1>6. ASSUME Unsupervised PROVE TypeOK'
    BY <1>6 DEF Unsupervised, bounds, brakeVars, brokerVars, history,
         ledgerVars, sweepVars
  <1>7. ASSUME Supervise PROVE TypeOK'
    BY <1>7 DEF Supervise, Recorded, bounds, brakeVars, brokerVars, sweepVars
  <1>8. ASSUME SuperviseBlind PROVE TypeOK'
    BY <1>8 DEF SuperviseBlind, Recorded, Fault, Zero, brakeVars, brokerVars,
         sweepVars
  <1>9. ASSUME DropEntry PROVE TypeOK'
    BY <1>9 DEF DropEntry, ForgetFill, bounds, brakeVars, brokerVars, history,
         ledgerVars, sweepVars
  <1>10. ASSUME DropEntryFails PROVE TypeOK'
    BY <1>10 DEF DropEntryFails, ForgetFill, Fault, brakeVars, brokerVars,
         history, ledgerVars, sweepVars
  <1>11. ASSUME Sweep PROVE TypeOK'
    BY <1>11 DEF Sweep, bounds, brakeVars, brokerVars, fillVars, history,
         ledgerVars
  <1>12. ASSUME Reconcile PROVE TypeOK'
    <2>1. state' \in [Position -> States]
      BY <1>12 DEF Reconcile
    <2>2. confirmed' \in [Position -> Int]
      BY <1>12 DEF Reconcile, Least
    <2>3. snap' \in [Symbol -> Int] /\ readable' \in SUBSET Symbol
           /\ sweeping' \in BOOLEAN
      BY <1>12, ForgotSweep DEF Reconcile
    <2>4. QED
      BY <1>12, <2>1, <2>2, <2>3 DEF Reconcile, brokerVars, fillVars, brakeVars,
           history, bounds
  <1>13. ASSUME ReconcileBlind PROVE TypeOK'
    <2>1. state' \in [Position -> States] /\ ceiling' \in [Position -> Nat]
           /\ confirmed' \in [Position -> Int]
      BY <1>13 DEF ReconcileBlind, Emptied, Zero
    <2>2. snap' \in [Symbol -> Int] /\ readable' \in SUBSET Symbol
           /\ sweeping' \in BOOLEAN
      BY <1>13, ForgotSweep DEF ReconcileBlind
    <2>3. QED
      BY <1>13, <2>1, <2>2 DEF ReconcileBlind, Fault, brokerVars, fillVars,
           brakeVars, history
  <1>14. ASSUME NEW p \in Position, Renew(p) PROVE TypeOK'
    BY <1>14 DEF Renew, bounds, brakeVars, brokerVars, fillVars, history,
         sweepVars
  <1>15. ASSUME RenewBlind PROVE TypeOK'
    BY <1>15 DEF RenewBlind, Emptied, Fault, Zero, brakeVars, brokerVars,
         fillVars, history, sweepVars
  <1>16. ASSUME TickStart PROVE TypeOK'
    BY <1>16 DEF TickStart, bounds, brokerVars, fillVars, history, ledgerVars,
         sweepVars
  <1>17. ASSUME TickEnd PROVE TypeOK'
    BY <1>17 DEF TickEnd, AbortTick, Forget, Zero, bounds, brokerVars,
         fillVars, history, ledgerVars, sweepVars
  <1>18. ASSUME NEW p \in Position, FireAsks(p) PROVE TypeOK'
    BY <1>18 DEF FireAsks, bounds, brokerVars, fillVars, history, ledgerVars,
         sweepVars
  <1>19. ASSUME BrokerAnswers PROVE TypeOK'
    BY <1>19 DEF BrokerAnswers, bounds, brokerVars, fillVars, history,
         ledgerVars, sweepVars
  <1>20. ASSUME FireRefuses PROVE TypeOK'
    BY <1>20 DEF FireRefuses, NextDue, Forget, bounds, brokerVars, fillVars,
         history, ledgerVars, sweepVars
  <1>21. ASSUME FireReleases PROVE TypeOK'
    BY <1>21 DEF FireReleases, Mark, NextDue, Forget, bounds, brokerVars,
         fillVars, history, ledgerVars, sweepVars
  <1>22. ASSUME FireClaims PROVE TypeOK'
    BY <1>22 DEF FireClaims, Mark, Least, bounds, brokerVars, fillVars,
         history, ledgerVars, sweepVars
  <1>23. ASSUME FireLosesClaim PROVE TypeOK'
    BY <1>23 DEF FireLosesClaim, NextDue, Forget, bounds, brokerVars,
         fillVars, history, ledgerVars, sweepVars
  <1>24. ASSUME ExitTaken PROVE TypeOK'
    BY <1>24 DEF ExitTaken, bounds, fillVars, ledgerVars, sweepVars
  <1>25. ASSUME ExitDenied PROVE TypeOK'
    BY <1>25 DEF ExitDenied, Mark, NextDue, Forget, bounds, brokerVars,
         fillVars, history, ledgerVars, sweepVars
  <1>26. ASSUME ExitReturns PROVE TypeOK'
    BY <1>26 DEF ExitReturns, Mark, NextDue, Forget, bounds, brokerVars,
         fillVars, history, ledgerVars, sweepVars
  <1>27. ASSUME ExitBreaks PROVE TypeOK'
    BY <1>27 DEF ExitBreaks, Mark, NextDue, Forget, bounds, brokerVars,
         fillVars, history, ledgerVars, sweepVars
  <1>28. ASSUME ExitUnrecorded PROVE TypeOK'
    BY <1>28 DEF ExitUnrecorded, Fault, AbortTick, Forget, NextDue, Zero,
         brokerVars, fillVars, history, ledgerVars, sweepVars
  <1>29. ASSUME Restart PROVE TypeOK'
    <2>1. state' \in [Position -> States]
      BY <1>29 DEF Restart
    <2>2. snap' \in [Symbol -> Int] /\ readable' \in SUBSET Symbol
           /\ sweeping' \in BOOLEAN
      BY <1>29, ForgotSweep DEF Restart
    <2>3. seen' \in [Position -> Nat] /\ due' \in SUBSET Position
           /\ bcur' \in Position \cup {NoPosition} /\ answer' \in Int
                  /\ qty' \in Int
      BY <1>29 DEF Restart, AbortTick, Forget, Zero
    <2>4. QED
      BY <1>29, <2>1, <2>2, <2>3 DEF Restart, ForgetFill, AbortTick, brokerVars,
           history
  <1>30. ASSUME UNCHANGED vars PROVE TypeOK'
    BY <1>30 DEF vars, bounds, brakeVars, brokerVars, fillVars, history,
         ledgerVars, sweepVars
  <1>31. QED
    BY <1>1, <1>2, <1>3, <1>4, <1>5, <1>6, <1>7, <1>8, <1>9, <1>10, <1>11,
         <1>12, <1>13, <1>14, <1>15, <1>16, <1>17, <1>18, <1>19, <1>20, <1>21,
         <1>22, <1>23, <1>24, <1>25, <1>26, <1>27, <1>28, <1>29, <1>30 DEF
         Next, Broker, Owner, Fills, Portfolio, Syncer, Brake

LEMMA ControlStep ==
  ASSUME TypeOK, IInv, [Next]_vars PROVE ControlInv'
  <1> USE SupervisionAssumption DEF IInv, ControlInv, TypeOK, BlockedNeverSold
  <1>1. ASSUME NEW p \in Position, EntryFills(p) PROVE ControlInv'
    BY <1>1 DEF EntryFills, Holds, bounds, brakeVars, fillVars, ledgerVars,
         sweepVars
  <1>2. ASSUME NEW p \in Position, ExitFills(p) PROVE ControlInv'
    BY <1>2 DEF ExitFills, Holds, bounds, brakeVars, fillVars, ledgerVars,
         sweepVars
  <1>3. ASSUME NEW s \in Symbol, OwnerTrades(s) PROVE ControlInv'
    BY <1>3 DEF OwnerTrades, Holds, brakeVars, fillVars, ledgerVars, sweepVars
  <1>4. ASSUME NEW p \in Position, MatchFill(p) PROVE ControlInv'
    BY <1>4 DEF MatchFill, bounds, brakeVars, brokerVars, history, ledgerVars,
         sweepVars
  <1>5. ASSUME RowsShowEntry PROVE ControlInv'
    BY <1>5 DEF RowsShowEntry, bounds, brakeVars, brokerVars, history,
         ledgerVars, sweepVars
  <1>6. ASSUME Unsupervised PROVE ControlInv'
    BY <1>6 DEF Unsupervised, bounds, brakeVars, brokerVars, history,
         ledgerVars, sweepVars
  <1>7. ASSUME Supervise PROVE ControlInv'
    BY <1>7 DEF Supervise, Recorded, bounds, brakeVars, brokerVars, sweepVars
  <1>8. ASSUME SuperviseBlind PROVE ControlInv'
    BY <1>8 DEF SuperviseBlind, Recorded, Fault, Zero, brakeVars, brokerVars,
         sweepVars
  <1>9. ASSUME DropEntry PROVE ControlInv'
    BY <1>9 DEF DropEntry, ForgetFill, bounds, brakeVars, brokerVars, history,
         ledgerVars, sweepVars
  <1>10. ASSUME DropEntryFails PROVE ControlInv'
    BY <1>10 DEF DropEntryFails, ForgetFill, Fault, brakeVars, brokerVars,
         history, ledgerVars, sweepVars
  <1>11. ASSUME Sweep PROVE ControlInv'
    BY <1>11 DEF Sweep, bounds, brakeVars, brokerVars, fillVars, history,
         ledgerVars
  <1>12. ASSUME Reconcile PROVE ControlInv'
    BY <1>12 DEF Reconcile, Spoken, Least, ForgetSweep, bounds, brakeVars,
         brokerVars, fillVars, history
  <1>13. ASSUME ReconcileBlind PROVE ControlInv'
    BY <1>13 DEF ReconcileBlind, Emptied, ForgetSweep, Fault, Zero, brakeVars,
         brokerVars, fillVars, history
  <1>14. ASSUME NEW p \in Position, Renew(p) PROVE ControlInv'
    BY <1>14 DEF Renew, bounds, brakeVars, brokerVars, fillVars, history,
         sweepVars
  <1>15. ASSUME RenewBlind PROVE ControlInv'
    BY <1>15 DEF RenewBlind, Emptied, Fault, Zero, brakeVars, brokerVars,
         fillVars, history, sweepVars
  <1>16. ASSUME TickStart PROVE ControlInv'
    BY <1>16 DEF TickStart, bounds, brokerVars, fillVars, history, ledgerVars,
         sweepVars
  <1>17. ASSUME TickEnd PROVE ControlInv'
    BY <1>17 DEF TickEnd, AbortTick, Forget, Zero, bounds, brokerVars,
         fillVars, history, ledgerVars, sweepVars
  <1>18. ASSUME NEW p \in Position, FireAsks(p) PROVE ControlInv'
    BY <1>18 DEF FireAsks, bounds, brokerVars, fillVars, history, ledgerVars,
         sweepVars
  <1>19. ASSUME BrokerAnswers PROVE ControlInv'
    BY <1>19 DEF BrokerAnswers, bounds, brokerVars, fillVars, history,
         ledgerVars, sweepVars
  <1>20. ASSUME FireRefuses PROVE ControlInv'
    BY <1>20 DEF FireRefuses, NextDue, Forget, bounds, brokerVars, fillVars,
         history, ledgerVars, sweepVars
  <1>21. ASSUME FireReleases PROVE ControlInv'
    BY <1>21 DEF FireReleases, Mark, NextDue, Forget, bounds, brokerVars,
         fillVars, history, ledgerVars, sweepVars
  <1>22. ASSUME FireClaims PROVE ControlInv'
    BY <1>22 DEF FireClaims, Mark, Least, bounds, brokerVars, fillVars,
         history, ledgerVars, sweepVars
  <1>23. ASSUME FireLosesClaim PROVE ControlInv'
    BY <1>23 DEF FireLosesClaim, NextDue, Forget, bounds, brokerVars,
         fillVars, history, ledgerVars, sweepVars
  <1>24. ASSUME ExitTaken PROVE ControlInv'
    BY <1>24 DEF ExitTaken, bounds, fillVars, ledgerVars, sweepVars
  <1>25. ASSUME ExitDenied PROVE ControlInv'
    BY <1>25 DEF ExitDenied, Mark, NextDue, Forget, bounds, brokerVars,
         fillVars, history, ledgerVars, sweepVars
  <1>26. ASSUME ExitReturns PROVE ControlInv'
    BY <1>26 DEF ExitReturns, Mark, NextDue, Forget, bounds, brokerVars,
         fillVars, history, ledgerVars, sweepVars
  <1>27. ASSUME ExitBreaks PROVE ControlInv'
    BY <1>27 DEF ExitBreaks, Mark, NextDue, Forget, bounds, brokerVars,
         fillVars, history, ledgerVars, sweepVars
  <1>28. ASSUME ExitUnrecorded PROVE ControlInv'
    BY <1>28 DEF ExitUnrecorded, Fault, AbortTick, Forget, NextDue, Zero,
         brokerVars, fillVars, history, ledgerVars, sweepVars
  <1>29. ASSUME Restart PROVE ControlInv'
    BY <1>29 DEF Restart, ForgetFill, ForgetSweep, Zero, AbortTick, Forget,
         brokerVars, history
  <1>30. ASSUME UNCHANGED vars PROVE ControlInv'
    BY <1>30 DEF vars, bounds, brakeVars, brokerVars, fillVars, history,
         ledgerVars, sweepVars
  <1>31. QED
    BY <1>1, <1>2, <1>3, <1>4, <1>5, <1>6, <1>7, <1>8, <1>9, <1>10, <1>11,
         <1>12, <1>13, <1>14, <1>15, <1>16, <1>17, <1>18, <1>19, <1>20, <1>21,
         <1>22, <1>23, <1>24, <1>25, <1>26, <1>27, <1>28, <1>29, <1>30 DEF
         Next, Broker, Owner, Fills, Portfolio, Syncer, Brake

LEMMA BudgetStep ==
  ASSUME TypeOK, IInv, [Next]_vars PROVE ExitBudget'
  <1> USE SupervisionAssumption DEF IInv, ControlInv, TypeOK, States,
         BlockedNeverSold, ExitBudget, MayExit, Live
  <1>1. ASSUME NEW p \in Position, EntryFills(p) PROVE ExitBudget'
    BY <1>1 DEF EntryFills, Holds, history, bounds, brakeVars, fillVars, ledgerVars,
         sweepVars
  <1>2. ASSUME NEW p \in Position, ExitFills(p) PROVE ExitBudget'
    BY <1>2 DEF ExitFills, Holds, history, bounds, brakeVars, fillVars, ledgerVars,
         sweepVars
  <1>3. ASSUME NEW s \in Symbol, OwnerTrades(s) PROVE ExitBudget'
    BY <1>3 DEF OwnerTrades, Holds, history, brakeVars, fillVars, ledgerVars, sweepVars
  <1>4. ASSUME NEW p \in Position, MatchFill(p) PROVE ExitBudget'
    BY <1>4 DEF MatchFill, bounds, brakeVars, brokerVars, history, ledgerVars,
         sweepVars
  <1>5. ASSUME RowsShowEntry PROVE ExitBudget'
    BY <1>5 DEF RowsShowEntry, bounds, brakeVars, brokerVars, history,
         ledgerVars, sweepVars
  <1>6. ASSUME Unsupervised PROVE ExitBudget'
    BY <1>6 DEF Unsupervised, bounds, brakeVars, brokerVars, history,
         ledgerVars, sweepVars
  <1>7. ASSUME Supervise PROVE ExitBudget'
    BY <1>7 DEF Supervise, Recorded, bounds, brakeVars, brokerVars, sweepVars
  <1>8. ASSUME SuperviseBlind PROVE ExitBudget'
    BY <1>8 DEF SuperviseBlind, Recorded, Fault, Zero, brakeVars, brokerVars,
         sweepVars
  <1>9. ASSUME DropEntry PROVE ExitBudget'
    BY <1>9 DEF DropEntry, ForgetFill, bounds, brakeVars, brokerVars, history,
         ledgerVars, sweepVars
  <1>10. ASSUME DropEntryFails PROVE ExitBudget'
    BY <1>10 DEF DropEntryFails, ForgetFill, Fault, brakeVars, brokerVars,
         history, ledgerVars, sweepVars
  <1>11. ASSUME Sweep PROVE ExitBudget'
    BY <1>11 DEF Sweep, bounds, brakeVars, brokerVars, fillVars, history,
         ledgerVars
  <1>12. ASSUME Reconcile PROVE ExitBudget'
    BY <1>12 DEF Reconcile, Spoken, Least, ForgetSweep, bounds, brakeVars,
         brokerVars, fillVars, history
  <1>13. ASSUME ReconcileBlind PROVE ExitBudget'
    BY <1>13 DEF ReconcileBlind, Emptied, ForgetSweep, Fault, Zero, brakeVars,
         brokerVars, fillVars, history
  <1>14. ASSUME NEW p \in Position, Renew(p) PROVE ExitBudget'
    BY <1>14 DEF Renew, bounds, brakeVars, brokerVars, fillVars, history,
         sweepVars
  <1>15. ASSUME RenewBlind PROVE ExitBudget'
    BY <1>15 DEF RenewBlind, Emptied, Fault, Zero, brakeVars, brokerVars,
         fillVars, history, sweepVars
  <1>16. ASSUME TickStart PROVE ExitBudget'
    BY <1>16 DEF TickStart, bounds, brokerVars, fillVars, history, ledgerVars,
         sweepVars
  <1>17. ASSUME TickEnd PROVE ExitBudget'
    BY <1>17 DEF TickEnd, AbortTick, Forget, Zero, bounds, brokerVars,
         fillVars, history, ledgerVars, sweepVars
  <1>18. ASSUME NEW p \in Position, FireAsks(p) PROVE ExitBudget'
    BY <1>18 DEF FireAsks, bounds, brokerVars, fillVars, history, ledgerVars,
         sweepVars
  <1>19. ASSUME BrokerAnswers PROVE ExitBudget'
    BY <1>19 DEF BrokerAnswers, bounds, brokerVars, fillVars, history,
         ledgerVars, sweepVars
  <1>20. ASSUME FireRefuses PROVE ExitBudget'
    BY <1>20 DEF FireRefuses, NextDue, Forget, bounds, brokerVars, fillVars,
         history, ledgerVars, sweepVars
  <1>21. ASSUME FireReleases PROVE ExitBudget'
    BY <1>21 DEF FireReleases, Mark, NextDue, Forget, bounds, brokerVars,
         fillVars, history, ledgerVars, sweepVars
  <1>22. ASSUME FireClaims PROVE ExitBudget'
    <2>1. bcur \in Position /\ state[bcur] = "armed" /\ bcur \notin Blocked
      BY <1>22 DEF FireClaims
    <2>2. state' = [state EXCEPT ![bcur] = "firing"]
      BY <1>22 DEF FireClaims, Mark
    <2>3. \A p \in Position : MayExit(p)' = MayExit(p)
      BY <1>22, <2>1, <2>2 DEF FireClaims
    <2>4. QED
      BY <1>22, <2>1, <2>2, <2>3 DEF FireClaims, history
  <1>23. ASSUME FireLosesClaim PROVE ExitBudget'
    BY <1>23 DEF FireLosesClaim, NextDue, Forget, bounds, brokerVars,
         fillVars, history, ledgerVars, sweepVars
  <1>24. ASSUME ExitTaken PROVE ExitBudget'
    BY <1>24 DEF ExitTaken, bounds, fillVars, ledgerVars, sweepVars
  <1>25. ASSUME ExitDenied PROVE ExitBudget'
    BY <1>25 DEF ExitDenied, Mark, NextDue, Forget, bounds, brokerVars,
         fillVars, history, ledgerVars, sweepVars
  <1>26. ASSUME ExitReturns PROVE ExitBudget'
    BY <1>26 DEF ExitReturns, Mark, NextDue, Forget, bounds, brokerVars,
         fillVars, history, ledgerVars, sweepVars
  <1>27. ASSUME ExitBreaks PROVE ExitBudget'
    BY <1>27 DEF ExitBreaks, Mark, NextDue, Forget, bounds, brokerVars,
         fillVars, history, ledgerVars, sweepVars
  <1>28. ASSUME ExitUnrecorded PROVE ExitBudget'
    BY <1>28 DEF ExitUnrecorded, Fault, AbortTick, Forget, NextDue, Zero,
         brokerVars, fillVars, history, ledgerVars, sweepVars
  <1>29. ASSUME Restart PROVE ExitBudget'
    BY <1>29 DEF Restart, ForgetFill, ForgetSweep, Zero, AbortTick, Forget,
         brokerVars, history
  <1>30. ASSUME UNCHANGED vars PROVE ExitBudget'
    BY <1>30 DEF vars, bounds, brakeVars, brokerVars, fillVars, history,
         ledgerVars, sweepVars
  <1>31. QED
    BY <1>1, <1>2, <1>3, <1>4, <1>5, <1>6, <1>7, <1>8, <1>9, <1>10, <1>11,
         <1>12, <1>13, <1>14, <1>15, <1>16, <1>17, <1>18, <1>19, <1>20, <1>21,
         <1>22, <1>23, <1>24, <1>25, <1>26, <1>27, <1>28, <1>29, <1>30 DEF
         Next, Broker, Owner, Fills, Portfolio, Syncer, Brake

LEMMA BlockedStep ==
  ASSUME TypeOK, IInv, [Next]_vars PROVE BlockedNeverSold'
  <1> USE SupervisionAssumption DEF IInv, ControlInv, TypeOK, States,
         BlockedNeverSold, Live
  <1>1. ASSUME NEW p \in Position, EntryFills(p) PROVE BlockedNeverSold'
    BY <1>1 DEF EntryFills, Holds, history, bounds, brakeVars, fillVars, ledgerVars,
         sweepVars
  <1>2. ASSUME NEW p \in Position, ExitFills(p) PROVE BlockedNeverSold'
    BY <1>2 DEF ExitFills, Holds, history, bounds, brakeVars, fillVars, ledgerVars,
         sweepVars
  <1>3. ASSUME NEW s \in Symbol, OwnerTrades(s) PROVE BlockedNeverSold'
    BY <1>3 DEF OwnerTrades, Holds, history, brakeVars, fillVars, ledgerVars, sweepVars
  <1>4. ASSUME NEW p \in Position, MatchFill(p) PROVE BlockedNeverSold'
    BY <1>4 DEF MatchFill, bounds, brakeVars, brokerVars, history, ledgerVars,
         sweepVars
  <1>5. ASSUME RowsShowEntry PROVE BlockedNeverSold'
    BY <1>5 DEF RowsShowEntry, bounds, brakeVars, brokerVars, history,
         ledgerVars, sweepVars
  <1>6. ASSUME Unsupervised PROVE BlockedNeverSold'
    BY <1>6 DEF Unsupervised, bounds, brakeVars, brokerVars, history,
         ledgerVars, sweepVars
  <1>7. ASSUME Supervise PROVE BlockedNeverSold'
    BY <1>7 DEF Supervise, Recorded, bounds, brakeVars, brokerVars, sweepVars
  <1>8. ASSUME SuperviseBlind PROVE BlockedNeverSold'
    BY <1>8 DEF SuperviseBlind, Recorded, Fault, Zero, brakeVars, brokerVars,
         sweepVars
  <1>9. ASSUME DropEntry PROVE BlockedNeverSold'
    BY <1>9 DEF DropEntry, ForgetFill, bounds, brakeVars, brokerVars, history,
         ledgerVars, sweepVars
  <1>10. ASSUME DropEntryFails PROVE BlockedNeverSold'
    BY <1>10 DEF DropEntryFails, ForgetFill, Fault, brakeVars, brokerVars,
         history, ledgerVars, sweepVars
  <1>11. ASSUME Sweep PROVE BlockedNeverSold'
    BY <1>11 DEF Sweep, bounds, brakeVars, brokerVars, fillVars, history,
         ledgerVars
  <1>12. ASSUME Reconcile PROVE BlockedNeverSold'
    BY <1>12 DEF Reconcile, Spoken, Least, ForgetSweep, bounds, brakeVars,
         brokerVars, fillVars, history
  <1>13. ASSUME ReconcileBlind PROVE BlockedNeverSold'
    BY <1>13 DEF ReconcileBlind, Emptied, ForgetSweep, Fault, Zero, brakeVars,
         brokerVars, fillVars, history
  <1>14. ASSUME NEW p \in Position, Renew(p) PROVE BlockedNeverSold'
    BY <1>14 DEF Renew, bounds, brakeVars, brokerVars, fillVars, history,
         sweepVars
  <1>15. ASSUME RenewBlind PROVE BlockedNeverSold'
    BY <1>15 DEF RenewBlind, Emptied, Fault, Zero, brakeVars, brokerVars,
         fillVars, history, sweepVars
  <1>16. ASSUME TickStart PROVE BlockedNeverSold'
    BY <1>16 DEF TickStart, bounds, brokerVars, fillVars, history, ledgerVars,
         sweepVars
  <1>17. ASSUME TickEnd PROVE BlockedNeverSold'
    BY <1>17 DEF TickEnd, AbortTick, Forget, Zero, bounds, brokerVars,
         fillVars, history, ledgerVars, sweepVars
  <1>18. ASSUME NEW p \in Position, FireAsks(p) PROVE BlockedNeverSold'
    BY <1>18 DEF FireAsks, bounds, brokerVars, fillVars, history, ledgerVars,
         sweepVars
  <1>19. ASSUME BrokerAnswers PROVE BlockedNeverSold'
    BY <1>19 DEF BrokerAnswers, bounds, brokerVars, fillVars, history,
         ledgerVars, sweepVars
  <1>20. ASSUME FireRefuses PROVE BlockedNeverSold'
    BY <1>20 DEF FireRefuses, NextDue, Forget, bounds, brokerVars, fillVars,
         history, ledgerVars, sweepVars
  <1>21. ASSUME FireReleases PROVE BlockedNeverSold'
    BY <1>21 DEF FireReleases, Mark, NextDue, Forget, bounds, brokerVars,
         fillVars, history, ledgerVars, sweepVars
  <1>22. ASSUME FireClaims PROVE BlockedNeverSold'
    BY <1>22 DEF FireClaims, Mark, Least, bounds, brokerVars, fillVars,
         history, ledgerVars, sweepVars
  <1>23. ASSUME FireLosesClaim PROVE BlockedNeverSold'
    BY <1>23 DEF FireLosesClaim, NextDue, Forget, bounds, brokerVars,
         fillVars, history, ledgerVars, sweepVars
  <1>24. ASSUME ExitTaken PROVE BlockedNeverSold'
    BY <1>24 DEF ExitTaken, bounds, fillVars, ledgerVars, sweepVars
  <1>25. ASSUME ExitDenied PROVE BlockedNeverSold'
    BY <1>25 DEF ExitDenied, Mark, NextDue, Forget, bounds, brokerVars,
         fillVars, history, ledgerVars, sweepVars
  <1>26. ASSUME ExitReturns PROVE BlockedNeverSold'
    BY <1>26 DEF ExitReturns, Mark, NextDue, Forget, bounds, brokerVars,
         fillVars, history, ledgerVars, sweepVars
  <1>27. ASSUME ExitBreaks PROVE BlockedNeverSold'
    BY <1>27 DEF ExitBreaks, Mark, NextDue, Forget, bounds, brokerVars,
         fillVars, history, ledgerVars, sweepVars
  <1>28. ASSUME ExitUnrecorded PROVE BlockedNeverSold'
    BY <1>28 DEF ExitUnrecorded, Fault, AbortTick, Forget, NextDue, Zero,
         brokerVars, fillVars, history, ledgerVars, sweepVars
  <1>29. ASSUME Restart PROVE BlockedNeverSold'
    BY <1>29 DEF Restart, ForgetFill, ForgetSweep, Zero, AbortTick, Forget,
         brokerVars, history
  <1>30. ASSUME UNCHANGED vars PROVE BlockedNeverSold'
    BY <1>30 DEF vars, bounds, brakeVars, brokerVars, fillVars, history,
         ledgerVars, sweepVars
  <1>31. QED
    BY <1>1, <1>2, <1>3, <1>4, <1>5, <1>6, <1>7, <1>8, <1>9, <1>10, <1>11,
         <1>12, <1>13, <1>14, <1>15, <1>16, <1>17, <1>18, <1>19, <1>20, <1>21,
         <1>22, <1>23, <1>24, <1>25, <1>26, <1>27, <1>28, <1>29, <1>30 DEF
         Next, Broker, Owner, Fills, Portfolio, Syncer, Brake

LEMMA TrailStep ==
  ASSUME TypeOK, IInv, [Next]_vars PROVE TrailInv'
  <1> USE SupervisionAssumption DEF IInv, ControlInv, TypeOK, States, TrailInv,
         Handled, Live
  <1>1. ASSUME NEW p \in Position, EntryFills(p) PROVE TrailInv'
    BY <1>1 DEF EntryFills, Holds, history, bounds, brakeVars, fillVars, ledgerVars,
         sweepVars
  <1>2. ASSUME NEW p \in Position, ExitFills(p) PROVE TrailInv'
    BY <1>2 DEF ExitFills, Holds, history, bounds, brakeVars, fillVars, ledgerVars,
         sweepVars
  <1>3. ASSUME NEW s \in Symbol, OwnerTrades(s) PROVE TrailInv'
    BY <1>3 DEF OwnerTrades, Holds, history, brakeVars, fillVars, ledgerVars, sweepVars
  <1>4. ASSUME NEW p \in Position, MatchFill(p) PROVE TrailInv'
    BY <1>4 DEF MatchFill, bounds, brakeVars, brokerVars, history, ledgerVars,
         sweepVars
  <1>5. ASSUME RowsShowEntry PROVE TrailInv'
    BY <1>5 DEF RowsShowEntry, bounds, brakeVars, brokerVars, history,
         ledgerVars, sweepVars
  <1>6. ASSUME Unsupervised PROVE TrailInv'
    BY <1>6 DEF Unsupervised, bounds, brakeVars, brokerVars, history,
         ledgerVars, sweepVars
  <1>7. ASSUME Supervise PROVE TrailInv'
    BY <1>7 DEF Supervise, Recorded, bounds, brakeVars, brokerVars, sweepVars
  <1>8. ASSUME SuperviseBlind PROVE TrailInv'
    BY <1>8 DEF SuperviseBlind, Recorded, Fault, Zero, brakeVars, brokerVars,
         sweepVars
  <1>9. ASSUME DropEntry PROVE TrailInv'
    BY <1>9 DEF DropEntry, ForgetFill, bounds, brakeVars, brokerVars, history,
         ledgerVars, sweepVars
  <1>10. ASSUME DropEntryFails PROVE TrailInv'
    BY <1>10 DEF DropEntryFails, ForgetFill, Fault, brakeVars, brokerVars,
         history, ledgerVars, sweepVars
  <1>11. ASSUME Sweep PROVE TrailInv'
    BY <1>11 DEF Sweep, bounds, brakeVars, brokerVars, fillVars, history,
         ledgerVars
  <1>12. ASSUME Reconcile PROVE TrailInv'
    BY <1>12 DEF Reconcile, Spoken, Least, ForgetSweep, bounds, brakeVars,
         brokerVars, fillVars, history
  <1>13. ASSUME ReconcileBlind PROVE TrailInv'
    BY <1>13 DEF ReconcileBlind, Emptied, ForgetSweep, Fault, Zero, brakeVars,
         brokerVars, fillVars, history
  <1>14. ASSUME NEW p \in Position, Renew(p) PROVE TrailInv'
    BY <1>14 DEF Renew, bounds, brakeVars, brokerVars, fillVars, history,
         sweepVars
  <1>15. ASSUME RenewBlind PROVE TrailInv'
    BY <1>15 DEF RenewBlind, Emptied, Fault, Zero, brakeVars, brokerVars,
         fillVars, history, sweepVars
  <1>16. ASSUME TickStart PROVE TrailInv'
    BY <1>16 DEF TickStart, bounds, brokerVars, fillVars, history, ledgerVars,
         sweepVars
  <1>17. ASSUME TickEnd PROVE TrailInv'
    BY <1>17 DEF TickEnd, AbortTick, Forget, Zero, bounds, brokerVars,
         fillVars, history, ledgerVars, sweepVars
  <1>18. ASSUME NEW p \in Position, FireAsks(p) PROVE TrailInv'
    BY <1>18 DEF FireAsks, bounds, brokerVars, fillVars, history, ledgerVars,
         sweepVars
  <1>19. ASSUME BrokerAnswers PROVE TrailInv'
    BY <1>19 DEF BrokerAnswers, bounds, brokerVars, fillVars, history,
         ledgerVars, sweepVars
  <1>20. ASSUME FireRefuses PROVE TrailInv'
    BY <1>20 DEF FireRefuses, NextDue, Forget, bounds, brokerVars, fillVars,
         history, ledgerVars, sweepVars
  <1>21. ASSUME FireReleases PROVE TrailInv'
    BY <1>21 DEF FireReleases, Mark, NextDue, Forget, bounds, brokerVars,
         fillVars, history, ledgerVars, sweepVars
  <1>22. ASSUME FireClaims PROVE TrailInv'
    BY <1>22 DEF FireClaims, Mark, Least, bounds, brokerVars, fillVars,
         history, ledgerVars, sweepVars
  <1>23. ASSUME FireLosesClaim PROVE TrailInv'
    BY <1>23 DEF FireLosesClaim, NextDue, Forget, bounds, brokerVars,
         fillVars, history, ledgerVars, sweepVars
  <1>24. ASSUME ExitTaken PROVE TrailInv'
    BY <1>24 DEF ExitTaken, bounds, fillVars, ledgerVars, sweepVars
  <1>25. ASSUME ExitDenied PROVE TrailInv'
    BY <1>25 DEF ExitDenied, Mark, NextDue, Forget, bounds, brokerVars,
         fillVars, history, ledgerVars, sweepVars
  <1>26. ASSUME ExitReturns PROVE TrailInv'
    BY <1>26 DEF ExitReturns, Mark, NextDue, Forget, bounds, brokerVars,
         fillVars, history, ledgerVars, sweepVars
  <1>27. ASSUME ExitBreaks PROVE TrailInv'
    BY <1>27 DEF ExitBreaks, Mark, NextDue, Forget, bounds, brokerVars,
         fillVars, history, ledgerVars, sweepVars
  <1>28. ASSUME ExitUnrecorded PROVE TrailInv'
    BY <1>28 DEF ExitUnrecorded, Fault, AbortTick, Forget, NextDue, Zero,
         brokerVars, fillVars, history, ledgerVars, sweepVars
  <1>29. ASSUME Restart PROVE TrailInv'
    BY <1>29 DEF Restart, ForgetFill, ForgetSweep, Zero, AbortTick, Forget,
         brokerVars, history
  <1>30. ASSUME UNCHANGED vars PROVE TrailInv'
    BY <1>30 DEF vars, bounds, brakeVars, brokerVars, fillVars, history,
         ledgerVars, sweepVars
  <1>31. QED
    BY <1>1, <1>2, <1>3, <1>4, <1>5, <1>6, <1>7, <1>8, <1>9, <1>10, <1>11,
         <1>12, <1>13, <1>14, <1>15, <1>16, <1>17, <1>18, <1>19, <1>20, <1>21,
         <1>22, <1>23, <1>24, <1>25, <1>26, <1>27, <1>28, <1>29, <1>30 DEF
         Next, Broker, Owner, Fills, Portfolio, Syncer, Brake

LEMMA InitInv == Init => TypeOK /\ IInv
<1> SUFFICES ASSUME Init PROVE TypeOK /\ IInv
  OBVIOUS
<1> USE SupervisionAssumption DEF Init, Zero
<1>1. TypeOK
  <2>1. sweeping \in BOOLEAN
    OBVIOUS
  <2>2. /\ held \in [Symbol -> Int] /\ snap \in [Symbol -> Int]
        /\ resting \in [Position -> Nat] /\ seen \in [Position -> Nat]
        /\ exits \in [Position -> Nat] /\ records \in [Position -> Nat]
    OBVIOUS
  <2>3. /\ entry \in [Position -> {"open", "filled", "dropped"}]
        /\ state \in [Position -> States]
        /\ ceiling \in [Position -> Nat] /\ confirmed \in [Position -> Int]
    BY DEF States
  <2>4. QED
    BY <2>1, <2>2, <2>3 DEF TypeOK
<1>2. ControlInv /\ BlockedNeverSold
  BY DEF ControlInv, BlockedNeverSold
<1>3. ExitBudget
  BY DEF ExitBudget, MayExit, Live
<1>4. TrailInv
  BY DEF TrailInv, Handled
<1>5. QED
  BY <1>1, <1>2, <1>3, <1>4 DEF IInv

LEMMA StepInv ==
  ASSUME TypeOK, IInv, [Next]_vars PROVE TypeOK' /\ IInv'
<1>1. TypeOK'
  BY TypeStep DEF IInv
<1>2. IInv'
  BY ControlStep, BudgetStep, BlockedStep, TrailStep DEF IInv
<1>3. QED
  BY <1>1, <1>2

\* TypeOK and IInv are inductive together; the other theorems start from here.
THEOREM Inductive == Spec => [](TypeOK /\ IInv)
<1>1. TypeOK /\ IInv /\ [Next]_vars => (TypeOK /\ IInv)'
  BY StepInv
<1>2. QED
  BY InitInv, <1>1, PTL DEF Spec

\* Every variable keeps its type: nothing a loop, a restart or a lost ledger
\* leaves behind is outside the states the code knows.
THEOREM TypeCorrect == Spec => []TypeOK
  BY Inductive, PTL

\* The broker accepts at most one exit for each time a position was recorded.
THEOREM OneExitPerRecord == Spec => []ExitPerRecord
<1>1. TypeOK /\ IInv => ExitPerRecord
  BY DEF IInv, ExitBudget, MayExit, ExitPerRecord, TypeOK
<1>2. QED
  BY Inductive, <1>1, PTL

\* A position supervise found blocked is never armed and never sold.
THEOREM NeverBlocked == Spec => []BlockedNeverSold
<1>1. IInv => BlockedNeverSold
  BY DEF IInv
<1>2. QED
  BY Inductive, <1>1, PTL

----------------------------------------------------------------------------
(* What an exit may be worth.                                                *)

LEMMA CeilingStep ==
  ASSUME FirstWithinEntry, TypeOK, IInv, CeilingInv, [Next]_vars
  PROVE  CeilingInv'
  <1> USE SupervisionAssumption DEF IInv, ControlInv, TypeOK, CeilingInv,
         FirstWithinEntry
  <1>1. ASSUME NEW p \in Position, EntryFills(p) PROVE CeilingInv'
    BY <1>1 DEF EntryFills, Holds, bounds, brakeVars, fillVars, ledgerVars,
         sweepVars
  <1>2. ASSUME NEW p \in Position, ExitFills(p) PROVE CeilingInv'
    BY <1>2 DEF ExitFills, Holds, bounds, brakeVars, fillVars, ledgerVars,
         sweepVars
  <1>3. ASSUME NEW s \in Symbol, OwnerTrades(s) PROVE CeilingInv'
    BY <1>3 DEF OwnerTrades, Holds, brakeVars, fillVars, ledgerVars, sweepVars
  <1>4. ASSUME NEW p \in Position, MatchFill(p) PROVE CeilingInv'
    BY <1>4 DEF MatchFill, bounds, brakeVars, brokerVars, history, ledgerVars,
         sweepVars
  <1>5. ASSUME RowsShowEntry PROVE CeilingInv'
    BY <1>5 DEF RowsShowEntry, bounds, brakeVars, brokerVars, history,
         ledgerVars, sweepVars
  <1>6. ASSUME Unsupervised PROVE CeilingInv'
    BY <1>6 DEF Unsupervised, bounds, brakeVars, brokerVars, history,
         ledgerVars, sweepVars
  <1>7. ASSUME Supervise PROVE CeilingInv'
    BY <1>7 DEF Supervise, Recorded, bounds, brakeVars, brokerVars, sweepVars
  <1>8. ASSUME SuperviseBlind PROVE CeilingInv'
    <2>1. fcur \in Position /\ seen' = seen
      BY <1>8 DEF SuperviseBlind, brakeVars
    <2>2. PICK c \in FirstCeilings \cup {0} : ceiling' = [Zero EXCEPT ![fcur] = c]
      BY <1>8 DEF SuperviseBlind, Recorded
    <2>3. \A p \in Position : Zero[p] <= EntryQty[p] /\ c <= EntryQty[p]
      BY DEF Zero
    <2>4. Zero \in [Position -> Nat]
      BY DEF Zero
    <2>5. \A p \in Position : ceiling'[p] <= EntryQty[p]
      BY <2>1, <2>2, <2>3, <2>4
    <2>6. QED
      BY <2>1, <2>5
  <1>9. ASSUME DropEntry PROVE CeilingInv'
    BY <1>9 DEF DropEntry, ForgetFill, bounds, brakeVars, brokerVars, history,
         ledgerVars, sweepVars
  <1>10. ASSUME DropEntryFails PROVE CeilingInv'
    BY <1>10 DEF DropEntryFails, ForgetFill, Fault, brakeVars, brokerVars,
         history, ledgerVars, sweepVars
  <1>11. ASSUME Sweep PROVE CeilingInv'
    BY <1>11 DEF Sweep, bounds, brakeVars, brokerVars, fillVars, history,
         ledgerVars
  <1>12. ASSUME Reconcile PROVE CeilingInv'
    BY <1>12 DEF Reconcile, Spoken, Least, ForgetSweep, bounds, brakeVars,
         brokerVars, fillVars, history
  <1>13. ASSUME ReconcileBlind PROVE CeilingInv'
    BY <1>13 DEF ReconcileBlind, Emptied, ForgetSweep, Fault, Zero, brakeVars,
         brokerVars, fillVars, history
  <1>14. ASSUME NEW p \in Position, Renew(p) PROVE CeilingInv'
    BY <1>14 DEF Renew, bounds, brakeVars, brokerVars, fillVars, history,
         sweepVars
  <1>15. ASSUME RenewBlind PROVE CeilingInv'
    BY <1>15 DEF RenewBlind, Emptied, Fault, Zero, brakeVars, brokerVars,
         fillVars, history, sweepVars
  <1>16. ASSUME TickStart PROVE CeilingInv'
    BY <1>16 DEF TickStart, bounds, brokerVars, fillVars, history, ledgerVars,
         sweepVars
  <1>17. ASSUME TickEnd PROVE CeilingInv'
    BY <1>17 DEF TickEnd, AbortTick, Forget, Zero, bounds, brokerVars,
         fillVars, history, ledgerVars, sweepVars
  <1>18. ASSUME NEW p \in Position, FireAsks(p) PROVE CeilingInv'
    BY <1>18 DEF FireAsks, bounds, brokerVars, fillVars, history, ledgerVars,
         sweepVars
  <1>19. ASSUME BrokerAnswers PROVE CeilingInv'
    BY <1>19 DEF BrokerAnswers, bounds, brokerVars, fillVars, history,
         ledgerVars, sweepVars
  <1>20. ASSUME FireRefuses PROVE CeilingInv'
    BY <1>20 DEF FireRefuses, NextDue, Forget, bounds, brokerVars, fillVars,
         history, ledgerVars, sweepVars
  <1>21. ASSUME FireReleases PROVE CeilingInv'
    BY <1>21 DEF FireReleases, Mark, NextDue, Forget, bounds, brokerVars,
         fillVars, history, ledgerVars, sweepVars
  <1>22. ASSUME FireClaims PROVE CeilingInv'
    BY <1>22 DEF FireClaims, Mark, Least, bounds, brokerVars, fillVars,
         history, ledgerVars, sweepVars
  <1>23. ASSUME FireLosesClaim PROVE CeilingInv'
    BY <1>23 DEF FireLosesClaim, NextDue, Forget, bounds, brokerVars,
         fillVars, history, ledgerVars, sweepVars
  <1>24. ASSUME ExitTaken PROVE CeilingInv'
    BY <1>24 DEF ExitTaken, bounds, fillVars, ledgerVars, sweepVars
  <1>25. ASSUME ExitDenied PROVE CeilingInv'
    BY <1>25 DEF ExitDenied, Mark, NextDue, Forget, bounds, brokerVars,
         fillVars, history, ledgerVars, sweepVars
  <1>26. ASSUME ExitReturns PROVE CeilingInv'
    BY <1>26 DEF ExitReturns, Mark, NextDue, Forget, bounds, brokerVars,
         fillVars, history, ledgerVars, sweepVars
  <1>27. ASSUME ExitBreaks PROVE CeilingInv'
    BY <1>27 DEF ExitBreaks, Mark, NextDue, Forget, bounds, brokerVars,
         fillVars, history, ledgerVars, sweepVars
  <1>28. ASSUME ExitUnrecorded PROVE CeilingInv'
    BY <1>28 DEF ExitUnrecorded, Fault, AbortTick, Forget, NextDue, Zero,
         brokerVars, fillVars, history, ledgerVars, sweepVars
  <1>29. ASSUME Restart PROVE CeilingInv'
    BY <1>29 DEF Restart, ForgetFill, ForgetSweep, Zero, AbortTick, Forget,
         brokerVars, history
  <1>30. ASSUME UNCHANGED vars PROVE CeilingInv'
    BY <1>30 DEF vars, bounds, brakeVars, brokerVars, fillVars, history,
         ledgerVars, sweepVars
  <1>31. QED
    BY <1>1, <1>2, <1>3, <1>4, <1>5, <1>6, <1>7, <1>8, <1>9, <1>10, <1>11,
         <1>12, <1>13, <1>14, <1>15, <1>16, <1>17, <1>18, <1>19, <1>20, <1>21,
         <1>22, <1>23, <1>24, <1>25, <1>26, <1>27, <1>28, <1>29, <1>30 DEF
         Next, Broker, Owner, Fills, Portfolio, Syncer, Brake

LEMMA WithinStep ==
  ASSUME TypeOK, IInv, CeilingInv, ExitWithinEntry, [Next]_vars
  PROVE  ExitWithinEntry'
  <1> USE SupervisionAssumption DEF IInv, ControlInv, TypeOK, CeilingInv,
         ExitWithinEntry
  <1>1. ASSUME NEW p \in Position, EntryFills(p) PROVE ExitWithinEntry'
    BY <1>1 DEF EntryFills, Holds, bounds, brakeVars, fillVars, ledgerVars,
         sweepVars
  <1>2. ASSUME NEW p \in Position, ExitFills(p) PROVE ExitWithinEntry'
    BY <1>2 DEF ExitFills, Holds, bounds, brakeVars, fillVars, ledgerVars,
         sweepVars
  <1>3. ASSUME NEW s \in Symbol, OwnerTrades(s) PROVE ExitWithinEntry'
    BY <1>3 DEF OwnerTrades, Holds, brakeVars, fillVars, ledgerVars, sweepVars
  <1>4. ASSUME NEW p \in Position, MatchFill(p) PROVE ExitWithinEntry'
    BY <1>4 DEF MatchFill, bounds, brakeVars, brokerVars, history, ledgerVars,
         sweepVars
  <1>5. ASSUME RowsShowEntry PROVE ExitWithinEntry'
    BY <1>5 DEF RowsShowEntry, bounds, brakeVars, brokerVars, history,
         ledgerVars, sweepVars
  <1>6. ASSUME Unsupervised PROVE ExitWithinEntry'
    BY <1>6 DEF Unsupervised, bounds, brakeVars, brokerVars, history,
         ledgerVars, sweepVars
  <1>7. ASSUME Supervise PROVE ExitWithinEntry'
    BY <1>7 DEF Supervise, Recorded, bounds, brakeVars, brokerVars, sweepVars
  <1>8. ASSUME SuperviseBlind PROVE ExitWithinEntry'
    BY <1>8 DEF SuperviseBlind, Recorded, Fault, Zero, brakeVars, brokerVars,
         sweepVars
  <1>9. ASSUME DropEntry PROVE ExitWithinEntry'
    BY <1>9 DEF DropEntry, ForgetFill, bounds, brakeVars, brokerVars, history,
         ledgerVars, sweepVars
  <1>10. ASSUME DropEntryFails PROVE ExitWithinEntry'
    BY <1>10 DEF DropEntryFails, ForgetFill, Fault, brakeVars, brokerVars,
         history, ledgerVars, sweepVars
  <1>11. ASSUME Sweep PROVE ExitWithinEntry'
    BY <1>11 DEF Sweep, bounds, brakeVars, brokerVars, fillVars, history,
         ledgerVars
  <1>12. ASSUME Reconcile PROVE ExitWithinEntry'
    BY <1>12 DEF Reconcile, Spoken, Least, ForgetSweep, bounds, brakeVars,
         brokerVars, fillVars, history
  <1>13. ASSUME ReconcileBlind PROVE ExitWithinEntry'
    BY <1>13 DEF ReconcileBlind, Emptied, ForgetSweep, Fault, Zero, brakeVars,
         brokerVars, fillVars, history
  <1>14. ASSUME NEW p \in Position, Renew(p) PROVE ExitWithinEntry'
    BY <1>14 DEF Renew, bounds, brakeVars, brokerVars, fillVars, history,
         sweepVars
  <1>15. ASSUME RenewBlind PROVE ExitWithinEntry'
    BY <1>15 DEF RenewBlind, Emptied, Fault, Zero, brakeVars, brokerVars,
         fillVars, history, sweepVars
  <1>16. ASSUME TickStart PROVE ExitWithinEntry'
    BY <1>16 DEF TickStart, bounds, brokerVars, fillVars, history, ledgerVars,
         sweepVars
  <1>17. ASSUME TickEnd PROVE ExitWithinEntry'
    BY <1>17 DEF TickEnd, AbortTick, Forget, Zero, bounds, brokerVars,
         fillVars, history, ledgerVars, sweepVars
  <1>18. ASSUME NEW p \in Position, FireAsks(p) PROVE ExitWithinEntry'
    BY <1>18 DEF FireAsks, bounds, brokerVars, fillVars, history, ledgerVars,
         sweepVars
  <1>19. ASSUME BrokerAnswers PROVE ExitWithinEntry'
    BY <1>19 DEF BrokerAnswers, bounds, brokerVars, fillVars, history,
         ledgerVars, sweepVars
  <1>20. ASSUME FireRefuses PROVE ExitWithinEntry'
    BY <1>20 DEF FireRefuses, NextDue, Forget, bounds, brokerVars, fillVars,
         history, ledgerVars, sweepVars
  <1>21. ASSUME FireReleases PROVE ExitWithinEntry'
    BY <1>21 DEF FireReleases, Mark, NextDue, Forget, bounds, brokerVars,
         fillVars, history, ledgerVars, sweepVars
  <1>22. ASSUME FireClaims PROVE ExitWithinEntry'
    <2>1. bcur \in Position /\ seen[bcur] \in 1..EntryQty[bcur]
      BY <1>22 DEF FireClaims
    <2>2. qty' \in 1..EntryQty[bcur]
      BY <1>22, <2>1 DEF FireClaims, Least
    <2>3. QED
      BY <1>22, <2>1, <2>2 DEF FireClaims
  <1>23. ASSUME FireLosesClaim PROVE ExitWithinEntry'
    BY <1>23 DEF FireLosesClaim, NextDue, Forget, bounds, brokerVars,
         fillVars, history, ledgerVars, sweepVars
  <1>24. ASSUME ExitTaken PROVE ExitWithinEntry'
    BY <1>24 DEF ExitTaken, bounds, fillVars, ledgerVars, sweepVars
  <1>25. ASSUME ExitDenied PROVE ExitWithinEntry'
    BY <1>25 DEF ExitDenied, Mark, NextDue, Forget, bounds, brokerVars,
         fillVars, history, ledgerVars, sweepVars
  <1>26. ASSUME ExitReturns PROVE ExitWithinEntry'
    BY <1>26 DEF ExitReturns, Mark, NextDue, Forget, bounds, brokerVars,
         fillVars, history, ledgerVars, sweepVars
  <1>27. ASSUME ExitBreaks PROVE ExitWithinEntry'
    BY <1>27 DEF ExitBreaks, Mark, NextDue, Forget, bounds, brokerVars,
         fillVars, history, ledgerVars, sweepVars
  <1>28. ASSUME ExitUnrecorded PROVE ExitWithinEntry'
    BY <1>28 DEF ExitUnrecorded, Fault, AbortTick, Forget, NextDue, Zero,
         brokerVars, fillVars, history, ledgerVars, sweepVars
  <1>29. ASSUME Restart PROVE ExitWithinEntry'
    BY <1>29 DEF Restart, ForgetFill, ForgetSweep, Zero, AbortTick, Forget,
         brokerVars, history
  <1>30. ASSUME UNCHANGED vars PROVE ExitWithinEntry'
    BY <1>30 DEF vars, bounds, brakeVars, brokerVars, fillVars, history,
         ledgerVars, sweepVars
  <1>31. QED
    BY <1>1, <1>2, <1>3, <1>4, <1>5, <1>6, <1>7, <1>8, <1>9, <1>10, <1>11,
         <1>12, <1>13, <1>14, <1>15, <1>16, <1>17, <1>18, <1>19, <1>20, <1>21,
         <1>22, <1>23, <1>24, <1>25, <1>26, <1>27, <1>28, <1>29, <1>30 DEF
         Next, Broker, Owner, Fills, Portfolio, Syncer, Brake

\* What is sold never exceeds what the entry bought, however often the warrant is
\* renewed, if the first warrant does not exceed it.
THEOREM WithinEntry ==
  ASSUME FirstWithinEntry PROVE Spec => [](CeilingInv /\ ExitWithinEntry)
<1>1. Init => CeilingInv /\ ExitWithinEntry
  BY SupervisionAssumption DEF Init, CeilingInv, ExitWithinEntry, Zero
<1>2. (TypeOK /\ IInv) /\ CeilingInv /\ ExitWithinEntry /\ [Next]_vars
        => (CeilingInv /\ ExitWithinEntry)'
  BY CeilingStep, WithinStep, FirstWithinEntry
<1>3. QED
  BY Inductive, <1>1, <1>2, PTL DEF Spec

----------------------------------------------------------------------------
(* What stays closed.                                                        *)

LEMMA RiskStep ==
  ASSUME TypeOK, IInv, ClosedCarriesNoRisk, [Next]_vars
  PROVE  ClosedCarriesNoRisk'
  <1> USE SupervisionAssumption DEF IInv, ControlInv, TypeOK, States, Live,
         ClosedCarriesNoRisk
  <1>1. ASSUME NEW p \in Position, EntryFills(p) PROVE ClosedCarriesNoRisk'
    BY <1>1 DEF EntryFills, Holds, bounds, brakeVars, fillVars, ledgerVars,
         sweepVars
  <1>2. ASSUME NEW p \in Position, ExitFills(p) PROVE ClosedCarriesNoRisk'
    BY <1>2 DEF ExitFills, Holds, bounds, brakeVars, fillVars, ledgerVars,
         sweepVars
  <1>3. ASSUME NEW s \in Symbol, OwnerTrades(s) PROVE ClosedCarriesNoRisk'
    BY <1>3 DEF OwnerTrades, Holds, brakeVars, fillVars, ledgerVars, sweepVars
  <1>4. ASSUME NEW p \in Position, MatchFill(p) PROVE ClosedCarriesNoRisk'
    BY <1>4 DEF MatchFill, bounds, brakeVars, brokerVars, history, ledgerVars,
         sweepVars
  <1>5. ASSUME RowsShowEntry PROVE ClosedCarriesNoRisk'
    BY <1>5 DEF RowsShowEntry, bounds, brakeVars, brokerVars, history,
         ledgerVars, sweepVars
  <1>6. ASSUME Unsupervised PROVE ClosedCarriesNoRisk'
    BY <1>6 DEF Unsupervised, bounds, brakeVars, brokerVars, history,
         ledgerVars, sweepVars
  <1>7. ASSUME Supervise PROVE ClosedCarriesNoRisk'
    BY <1>7 DEF Supervise, Recorded, bounds, brakeVars, brokerVars, sweepVars
  <1>8. ASSUME SuperviseBlind PROVE ClosedCarriesNoRisk'
    BY <1>8 DEF SuperviseBlind, Recorded, Fault, Zero, brakeVars, brokerVars,
         sweepVars
  <1>9. ASSUME DropEntry PROVE ClosedCarriesNoRisk'
    BY <1>9 DEF DropEntry, ForgetFill, bounds, brakeVars, brokerVars, history,
         ledgerVars, sweepVars
  <1>10. ASSUME DropEntryFails PROVE ClosedCarriesNoRisk'
    BY <1>10 DEF DropEntryFails, ForgetFill, Fault, brakeVars, brokerVars,
         history, ledgerVars, sweepVars
  <1>11. ASSUME Sweep PROVE ClosedCarriesNoRisk'
    BY <1>11 DEF Sweep, bounds, brakeVars, brokerVars, fillVars, history,
         ledgerVars
  <1>12. ASSUME Reconcile PROVE ClosedCarriesNoRisk'
    BY <1>12 DEF Reconcile, Spoken, Least, ForgetSweep, bounds, brakeVars,
         brokerVars, fillVars, history
  <1>13. ASSUME ReconcileBlind PROVE ClosedCarriesNoRisk'
    BY <1>13 DEF ReconcileBlind, Emptied, ForgetSweep, Fault, Zero, brakeVars,
         brokerVars, fillVars, history
  <1>14. ASSUME NEW p \in Position, Renew(p) PROVE ClosedCarriesNoRisk'
    BY <1>14 DEF Renew, bounds, brakeVars, brokerVars, fillVars, history,
         sweepVars
  <1>15. ASSUME RenewBlind PROVE ClosedCarriesNoRisk'
    BY <1>15 DEF RenewBlind, Emptied, Fault, Zero, brakeVars, brokerVars,
         fillVars, history, sweepVars
  <1>16. ASSUME TickStart PROVE ClosedCarriesNoRisk'
    BY <1>16 DEF TickStart, bounds, brokerVars, fillVars, history, ledgerVars,
         sweepVars
  <1>17. ASSUME TickEnd PROVE ClosedCarriesNoRisk'
    BY <1>17 DEF TickEnd, AbortTick, Forget, Zero, bounds, brokerVars,
         fillVars, history, ledgerVars, sweepVars
  <1>18. ASSUME NEW p \in Position, FireAsks(p) PROVE ClosedCarriesNoRisk'
    BY <1>18 DEF FireAsks, bounds, brokerVars, fillVars, history, ledgerVars,
         sweepVars
  <1>19. ASSUME BrokerAnswers PROVE ClosedCarriesNoRisk'
    BY <1>19 DEF BrokerAnswers, bounds, brokerVars, fillVars, history,
         ledgerVars, sweepVars
  <1>20. ASSUME FireRefuses PROVE ClosedCarriesNoRisk'
    BY <1>20 DEF FireRefuses, NextDue, Forget, bounds, brokerVars, fillVars,
         history, ledgerVars, sweepVars
  <1>21. ASSUME FireReleases PROVE ClosedCarriesNoRisk'
    BY <1>21 DEF FireReleases, Mark, NextDue, Forget, bounds, brokerVars,
         fillVars, history, ledgerVars, sweepVars
  <1>22. ASSUME FireClaims PROVE ClosedCarriesNoRisk'
    BY <1>22 DEF FireClaims, Mark, Least, bounds, brokerVars, fillVars,
         history, ledgerVars, sweepVars
  <1>23. ASSUME FireLosesClaim PROVE ClosedCarriesNoRisk'
    BY <1>23 DEF FireLosesClaim, NextDue, Forget, bounds, brokerVars,
         fillVars, history, ledgerVars, sweepVars
  <1>24. ASSUME ExitTaken PROVE ClosedCarriesNoRisk'
    BY <1>24 DEF ExitTaken, bounds, fillVars, ledgerVars, sweepVars
  <1>25. ASSUME ExitDenied PROVE ClosedCarriesNoRisk'
    BY <1>25 DEF ExitDenied, Mark, NextDue, Forget, bounds, brokerVars,
         fillVars, history, ledgerVars, sweepVars
  <1>26. ASSUME ExitReturns PROVE ClosedCarriesNoRisk'
    BY <1>26 DEF ExitReturns, Mark, NextDue, Forget, bounds, brokerVars,
         fillVars, history, ledgerVars, sweepVars
  <1>27. ASSUME ExitBreaks PROVE ClosedCarriesNoRisk'
    BY <1>27 DEF ExitBreaks, Mark, NextDue, Forget, bounds, brokerVars,
         fillVars, history, ledgerVars, sweepVars
  <1>28. ASSUME ExitUnrecorded PROVE ClosedCarriesNoRisk'
    BY <1>28 DEF ExitUnrecorded, Fault, AbortTick, Forget, NextDue, Zero,
         brokerVars, fillVars, history, ledgerVars, sweepVars
  <1>29. ASSUME Restart PROVE ClosedCarriesNoRisk'
    BY <1>29 DEF Restart, ForgetFill, ForgetSweep, Zero, AbortTick, Forget,
         brokerVars, history
  <1>30. ASSUME UNCHANGED vars PROVE ClosedCarriesNoRisk'
    BY <1>30 DEF vars, bounds, brakeVars, brokerVars, fillVars, history,
         ledgerVars, sweepVars
  <1>31. QED
    BY <1>1, <1>2, <1>3, <1>4, <1>5, <1>6, <1>7, <1>8, <1>9, <1>10, <1>11,
         <1>12, <1>13, <1>14, <1>15, <1>16, <1>17, <1>18, <1>19, <1>20, <1>21,
         <1>22, <1>23, <1>24, <1>25, <1>26, <1>27, <1>28, <1>29, <1>30 DEF
         Next, Broker, Owner, Fills, Portfolio, Syncer, Brake

\* A fired or released record never counts towards the portfolio's heat again.
THEOREM NoRiskLeft == Spec => []ClosedCarriesNoRisk
<1>1. Init => ClosedCarriesNoRisk
  BY DEF Init, ClosedCarriesNoRisk
<1>2. (TypeOK /\ IInv) /\ ClosedCarriesNoRisk
       /\ [Next]_vars => ClosedCarriesNoRisk'
  BY RiskStep
<1>3. QED
  BY Inductive, <1>1, <1>2, PTL DEF Spec

StaysClosed ==
  \A p \in Position :
    (records[p] = 1 /\ state[p] \in Terminal \ {"firing"})
      => (state'[p] \in {state[p], "absent"} \/ records'[p] = 2)

LEMMA ClosedStep ==
  ASSUME TypeOK, IInv, [Next]_vars PROVE StaysClosed
  <1> USE SupervisionAssumption DEF IInv, ControlInv, TypeOK, States, Live,
         Terminal, TrailInv, Handled, StaysClosed
  <1>1. ASSUME NEW p \in Position, EntryFills(p) PROVE StaysClosed
    BY <1>1 DEF EntryFills, Holds, bounds, brakeVars, fillVars, ledgerVars,
         sweepVars
  <1>2. ASSUME NEW p \in Position, ExitFills(p) PROVE StaysClosed
    BY <1>2 DEF ExitFills, Holds, bounds, brakeVars, fillVars, ledgerVars,
         sweepVars
  <1>3. ASSUME NEW s \in Symbol, OwnerTrades(s) PROVE StaysClosed
    BY <1>3 DEF OwnerTrades, Holds, brakeVars, fillVars, ledgerVars, sweepVars
  <1>4. ASSUME NEW p \in Position, MatchFill(p) PROVE StaysClosed
    BY <1>4 DEF MatchFill, bounds, brakeVars, brokerVars, history, ledgerVars,
         sweepVars
  <1>5. ASSUME RowsShowEntry PROVE StaysClosed
    BY <1>5 DEF RowsShowEntry, bounds, brakeVars, brokerVars, history,
         ledgerVars, sweepVars
  <1>6. ASSUME Unsupervised PROVE StaysClosed
    BY <1>6 DEF Unsupervised, bounds, brakeVars, brokerVars, history,
         ledgerVars, sweepVars
  <1>7. ASSUME Supervise PROVE StaysClosed
    BY <1>7 DEF Supervise, Recorded, bounds, brakeVars, brokerVars, sweepVars
  <1>8. ASSUME SuperviseBlind PROVE StaysClosed
    BY <1>8 DEF SuperviseBlind, Recorded, Fault, Zero, brakeVars, brokerVars,
         sweepVars
  <1>9. ASSUME DropEntry PROVE StaysClosed
    BY <1>9 DEF DropEntry, ForgetFill, bounds, brakeVars, brokerVars, history,
         ledgerVars, sweepVars
  <1>10. ASSUME DropEntryFails PROVE StaysClosed
    BY <1>10 DEF DropEntryFails, ForgetFill, Fault, brakeVars, brokerVars,
         history, ledgerVars, sweepVars
  <1>11. ASSUME Sweep PROVE StaysClosed
    BY <1>11 DEF Sweep, bounds, brakeVars, brokerVars, fillVars, history,
         ledgerVars
  <1>12. ASSUME Reconcile PROVE StaysClosed
    BY <1>12 DEF Reconcile, Spoken, Least, ForgetSweep, bounds, brakeVars,
         brokerVars, fillVars, history
  <1>13. ASSUME ReconcileBlind PROVE StaysClosed
    BY <1>13 DEF ReconcileBlind, Emptied, ForgetSweep, Fault, Zero, brakeVars,
         brokerVars, fillVars, history
  <1>14. ASSUME NEW p \in Position, Renew(p) PROVE StaysClosed
    BY <1>14 DEF Renew, bounds, brakeVars, brokerVars, fillVars, history,
         sweepVars
  <1>15. ASSUME RenewBlind PROVE StaysClosed
    BY <1>15 DEF RenewBlind, Emptied, Fault, Zero, brakeVars, brokerVars,
         fillVars, history, sweepVars
  <1>16. ASSUME TickStart PROVE StaysClosed
    BY <1>16 DEF TickStart, bounds, brokerVars, fillVars, history, ledgerVars,
         sweepVars
  <1>17. ASSUME TickEnd PROVE StaysClosed
    BY <1>17 DEF TickEnd, AbortTick, Forget, Zero, bounds, brokerVars,
         fillVars, history, ledgerVars, sweepVars
  <1>18. ASSUME NEW p \in Position, FireAsks(p) PROVE StaysClosed
    BY <1>18 DEF FireAsks, bounds, brokerVars, fillVars, history, ledgerVars,
         sweepVars
  <1>19. ASSUME BrokerAnswers PROVE StaysClosed
    BY <1>19 DEF BrokerAnswers, bounds, brokerVars, fillVars, history,
         ledgerVars, sweepVars
  <1>20. ASSUME FireRefuses PROVE StaysClosed
    BY <1>20 DEF FireRefuses, NextDue, Forget, bounds, brokerVars, fillVars,
         history, ledgerVars, sweepVars
  <1>21. ASSUME FireReleases PROVE StaysClosed
    BY <1>21 DEF FireReleases, Mark, NextDue, Forget, bounds, brokerVars,
         fillVars, history, ledgerVars, sweepVars
  <1>22. ASSUME FireClaims PROVE StaysClosed
    BY <1>22 DEF FireClaims, Mark, Least, bounds, brokerVars, fillVars,
         history, ledgerVars, sweepVars
  <1>23. ASSUME FireLosesClaim PROVE StaysClosed
    BY <1>23 DEF FireLosesClaim, NextDue, Forget, bounds, brokerVars,
         fillVars, history, ledgerVars, sweepVars
  <1>24. ASSUME ExitTaken PROVE StaysClosed
    BY <1>24 DEF ExitTaken, bounds, fillVars, ledgerVars, sweepVars
  <1>25. ASSUME ExitDenied PROVE StaysClosed
    BY <1>25 DEF ExitDenied, Mark, NextDue, Forget, bounds, brokerVars,
         fillVars, history, ledgerVars, sweepVars
  <1>26. ASSUME ExitReturns PROVE StaysClosed
    BY <1>26 DEF ExitReturns, Mark, NextDue, Forget, bounds, brokerVars,
         fillVars, history, ledgerVars, sweepVars
  <1>27. ASSUME ExitBreaks PROVE StaysClosed
    BY <1>27 DEF ExitBreaks, Mark, NextDue, Forget, bounds, brokerVars,
         fillVars, history, ledgerVars, sweepVars
  <1>28. ASSUME ExitUnrecorded PROVE StaysClosed
    BY <1>28 DEF ExitUnrecorded, Fault, AbortTick, Forget, NextDue, Zero,
         brokerVars, fillVars, history, ledgerVars, sweepVars
  <1>29. ASSUME Restart PROVE StaysClosed
    BY <1>29 DEF Restart, ForgetFill, ForgetSweep, Zero, AbortTick, Forget,
         brokerVars, history
  <1>30. ASSUME UNCHANGED vars PROVE StaysClosed
    BY <1>30 DEF vars, bounds, brakeVars, brokerVars, fillVars, history,
         ledgerVars, sweepVars
  <1>31. QED
    BY <1>1, <1>2, <1>3, <1>4, <1>5, <1>6, <1>7, <1>8, <1>9, <1>10, <1>11,
         <1>12, <1>13, <1>14, <1>15, <1>16, <1>17, <1>18, <1>19, <1>20, <1>21,
         <1>22, <1>23, <1>24, <1>25, <1>26, <1>27, <1>28, <1>29, <1>30 DEF
         Next, Broker, Owner, Fills, Portfolio, Syncer, Brake

\* A record written once and closed is never reopened.
THEOREM Closed == Spec => ClosedStaysClosed
<1>1. TypeOK /\ IInv /\ [Next]_vars => [StaysClosed]_vars
  BY ClosedStep
<1>2. Spec => [][StaysClosed]_vars
  BY Inductive, <1>1, PTL DEF Spec
<1>3. QED
  BY <1>2 DEF ClosedStaysClosed, StaysClosed

----------------------------------------------------------------------------
(* Supervision implements ExitPromise.                                       *)

\* A step that gives no position more to exit with, and neither exits nor records,
\* is a withdrawal.
LEMMA WithdrawStep ==
  ASSUME \A p \in Position : MayExit(p)' <= MayExit(p), UNCHANGED <<exits,
         records>>
  PROVE  Promise!Next
  BY DEF Promise!Next, Promise!Withdraw

LEMMA RecordStep ==
  ASSUME NEW p \in Position, p = fcur,
         NEW STATE st, st \in [Position -> States], NEW STATE ceil,
         NEW STATE conf,
         TypeOK, IInv, Recorded(st, ceil, conf),
         \A q \in Position : st[q] \in {state[q], "absent"},
         UNCHANGED <<brakeVars, exits>>
  PROVE  Promise!Next
<1>1. records' = [records EXCEPT ![p] = @ + 1]
  BY DEF Recorded
<1>2. MayExit(p)' <= IF p \in Blocked THEN 0 ELSE MayExit(p) + 1
  <2>1. bpc' = bpc /\ bcur' = bcur
    BY DEF brakeVars
  <2>2. CASE p \in Blocked
    <3>1. ~(state'[p] \in Live /\ p \notin Blocked)
      BY <2>2
    <3>2. ~(bpc' = "calling" /\ bcur' = p)
      BY <2>1, <2>2 DEF IInv, ControlInv
    <3>3. QED
      BY <2>2, <3>1, <3>2 DEF MayExit
  <2>3. CASE p \notin Blocked
    BY <2>1, <2>3 DEF MayExit
  <2>4. QED
    BY <2>2, <2>3
<1>3. \A q \in Position \ {p} : MayExit(q)' <= MayExit(q)
  BY DEF Recorded, MayExit, Live, brakeVars, TypeOK, States
<1>4. exits' = exits
  BY DEF brakeVars
<1>5. Promise!Record(p)
  BY <1>1, <1>2, <1>3, <1>4 DEF Promise!Record
<1>6. QED
  BY <1>5 DEF Promise!Next

LEMMA PromiseStep ==
  ASSUME TypeOK, IInv, [Next]_vars
  PROVE  Promise!Next \/ UNCHANGED Promise!vars
  <1> USE SupervisionAssumption DEF IInv, ControlInv, TypeOK, States, Live
  <1>1. ASSUME NEW p \in Position, EntryFills(p) PROVE Promise!Next \/
       UNCHANGED Promise!vars
    <2>1. \A q \in Position : MayExit(q)' <= MayExit(q)
      BY <1>1 DEF MayExit, BlockedNeverSold, EntryFills, Holds, bounds,
           brakeVars, fillVars, ledgerVars, sweepVars
    <2>2. QED
      BY <1>1, <2>1, WithdrawStep DEF EntryFills, history
  <1>2. ASSUME NEW p \in Position, ExitFills(p) PROVE Promise!Next \/
       UNCHANGED Promise!vars
    <2>1. \A q \in Position : MayExit(q)' <= MayExit(q)
      BY <1>2 DEF MayExit, BlockedNeverSold, ExitFills, Holds, bounds, brakeVars,
           fillVars, ledgerVars, sweepVars
    <2>2. QED
      BY <1>2, <2>1, WithdrawStep DEF ExitFills, history
  <1>3. ASSUME NEW s \in Symbol, OwnerTrades(s) PROVE Promise!Next \/
       UNCHANGED Promise!vars
    <2>1. \A q \in Position : MayExit(q)' <= MayExit(q)
      BY <1>3 DEF MayExit, BlockedNeverSold, OwnerTrades, Holds, brakeVars,
           fillVars, ledgerVars, sweepVars
    <2>2. QED
      BY <1>3, <2>1, WithdrawStep DEF OwnerTrades, history
  <1>4. ASSUME NEW p \in Position, MatchFill(p) PROVE Promise!Next \/
       UNCHANGED Promise!vars
    <2>1. \A q \in Position : MayExit(q)' <= MayExit(q)
      BY <1>4 DEF MayExit, BlockedNeverSold, MatchFill, bounds, brakeVars,
           brokerVars, history, ledgerVars, sweepVars
    <2>2. QED
      BY <1>4, <2>1, WithdrawStep DEF MatchFill, history
  <1>5. ASSUME RowsShowEntry PROVE Promise!Next \/ UNCHANGED Promise!vars
    <2>1. \A q \in Position : MayExit(q)' <= MayExit(q)
      BY <1>5 DEF MayExit, BlockedNeverSold, RowsShowEntry, bounds, brakeVars,
           brokerVars, history, ledgerVars, sweepVars
    <2>2. QED
      BY <1>5, <2>1, WithdrawStep DEF RowsShowEntry, history
  <1>6. ASSUME Unsupervised PROVE Promise!Next \/ UNCHANGED Promise!vars
    <2>1. \A q \in Position : MayExit(q)' <= MayExit(q)
      BY <1>6 DEF MayExit, BlockedNeverSold, Unsupervised, bounds, brakeVars,
           brokerVars, history, ledgerVars, sweepVars
    <2>2. QED
      BY <1>6, <2>1, WithdrawStep DEF Unsupervised, history
  <1>7. ASSUME Supervise PROVE Promise!Next \/ UNCHANGED Promise!vars
    <2>1. fcur \in Position /\ UNCHANGED <<brakeVars, exits>>
      BY <1>7 DEF Supervise
    <2>2. Recorded(state, ceiling, confirmed)
      BY <1>7 DEF Supervise
    <2>3. PICK p \in Position : p = fcur
      BY <2>1
    <2>4. QED
      BY <2>1, <2>2, <2>3, RecordStep
  <1>8. ASSUME SuperviseBlind PROVE Promise!Next \/ UNCHANGED Promise!vars
    <2>1. fcur \in Position /\ UNCHANGED <<brakeVars, exits>>
      BY <1>8 DEF SuperviseBlind
    <2>2. Recorded([p \in Position |-> "absent"], Zero, Zero)
      BY <1>8 DEF SuperviseBlind
    <2>3. PICK p \in Position : p = fcur
      BY <2>1
    <2>4. QED
      BY <2>1, <2>2, <2>3, RecordStep
  <1>9. ASSUME DropEntry PROVE Promise!Next \/ UNCHANGED Promise!vars
    <2>1. \A q \in Position : MayExit(q)' <= MayExit(q)
      BY <1>9 DEF MayExit, BlockedNeverSold, DropEntry, ForgetFill, bounds,
           brakeVars, brokerVars, history, ledgerVars, sweepVars
    <2>2. QED
      BY <1>9, <2>1, WithdrawStep DEF DropEntry, history
  <1>10. ASSUME DropEntryFails PROVE Promise!Next \/ UNCHANGED Promise!vars
    <2>1. \A q \in Position : MayExit(q)' <= MayExit(q)
      BY <1>10 DEF MayExit, BlockedNeverSold, DropEntryFails, ForgetFill, Fault,
           brakeVars, brokerVars, history, ledgerVars, sweepVars
    <2>2. QED
      BY <1>10, <2>1, WithdrawStep DEF DropEntryFails, history
  <1>11. ASSUME Sweep PROVE Promise!Next \/ UNCHANGED Promise!vars
    <2>1. \A q \in Position : MayExit(q)' <= MayExit(q)
      BY <1>11 DEF MayExit, BlockedNeverSold, Sweep, bounds, brakeVars,
           brokerVars, fillVars, history, ledgerVars
    <2>2. QED
      BY <1>11, <2>1, WithdrawStep DEF Sweep, history
  <1>12. ASSUME Reconcile PROVE Promise!Next \/ UNCHANGED Promise!vars
    <2>1. \A q \in Position : MayExit(q)' <= MayExit(q)
      BY <1>12 DEF MayExit, BlockedNeverSold, Reconcile, Spoken, Least,
           ForgetSweep, bounds, brakeVars, brokerVars, fillVars, history
    <2>2. QED
      BY <1>12, <2>1, WithdrawStep DEF Reconcile, history
  <1>13. ASSUME ReconcileBlind PROVE Promise!Next \/ UNCHANGED Promise!vars
    <2>1. \A q \in Position : MayExit(q)' <= MayExit(q)
      BY <1>13 DEF MayExit, BlockedNeverSold, ReconcileBlind, Emptied,
           ForgetSweep, Fault, Zero, brakeVars, brokerVars, fillVars, history
    <2>2. QED
      BY <1>13, <2>1, WithdrawStep DEF ReconcileBlind, history
  <1>14. ASSUME NEW p \in Position, Renew(p) PROVE Promise!Next \/ UNCHANGED
       Promise!vars
    <2>1. \A q \in Position : MayExit(q)' <= MayExit(q)
      BY <1>14 DEF MayExit, BlockedNeverSold, Renew, bounds, brakeVars,
           brokerVars, fillVars, history, sweepVars
    <2>2. QED
      BY <1>14, <2>1, WithdrawStep DEF Renew, history
  <1>15. ASSUME RenewBlind PROVE Promise!Next \/ UNCHANGED Promise!vars
    <2>1. \A q \in Position : MayExit(q)' <= MayExit(q)
      BY <1>15 DEF MayExit, BlockedNeverSold, RenewBlind, Emptied, Fault, Zero,
           brakeVars, brokerVars, fillVars, history, sweepVars
    <2>2. QED
      BY <1>15, <2>1, WithdrawStep DEF RenewBlind, history
  <1>16. ASSUME TickStart PROVE Promise!Next \/ UNCHANGED Promise!vars
    <2>1. \A q \in Position : MayExit(q)' <= MayExit(q)
      BY <1>16 DEF MayExit, BlockedNeverSold, TickStart, bounds, brokerVars,
           fillVars, history, ledgerVars, sweepVars
    <2>2. QED
      BY <1>16, <2>1, WithdrawStep DEF TickStart, history
  <1>17. ASSUME TickEnd PROVE Promise!Next \/ UNCHANGED Promise!vars
    <2>1. \A q \in Position : MayExit(q)' <= MayExit(q)
      BY <1>17 DEF MayExit, BlockedNeverSold, TickEnd, AbortTick, Forget, Zero,
           bounds, brokerVars, fillVars, history, ledgerVars, sweepVars
    <2>2. QED
      BY <1>17, <2>1, WithdrawStep DEF TickEnd, history
  <1>18. ASSUME NEW p \in Position, FireAsks(p) PROVE Promise!Next \/
       UNCHANGED Promise!vars
    <2>1. \A q \in Position : MayExit(q)' <= MayExit(q)
      BY <1>18 DEF MayExit, BlockedNeverSold, FireAsks, bounds, brokerVars,
           fillVars, history, ledgerVars, sweepVars
    <2>2. QED
      BY <1>18, <2>1, WithdrawStep DEF FireAsks, history
  <1>19. ASSUME BrokerAnswers PROVE Promise!Next \/ UNCHANGED Promise!vars
    <2>1. \A q \in Position : MayExit(q)' <= MayExit(q)
      BY <1>19 DEF MayExit, BlockedNeverSold, BrokerAnswers, bounds, brokerVars,
           fillVars, history, ledgerVars, sweepVars
    <2>2. QED
      BY <1>19, <2>1, WithdrawStep DEF BrokerAnswers, history
  <1>20. ASSUME FireRefuses PROVE Promise!Next \/ UNCHANGED Promise!vars
    <2>1. \A q \in Position : MayExit(q)' <= MayExit(q)
      BY <1>20 DEF MayExit, BlockedNeverSold, FireRefuses, NextDue, Forget,
           bounds, brokerVars, fillVars, history, ledgerVars, sweepVars
    <2>2. QED
      BY <1>20, <2>1, WithdrawStep DEF FireRefuses, history
  <1>21. ASSUME FireReleases PROVE Promise!Next \/ UNCHANGED Promise!vars
    <2>1. \A q \in Position : MayExit(q)' <= MayExit(q)
      BY <1>21 DEF MayExit, BlockedNeverSold, FireReleases, Mark, NextDue, Forget,
           bounds, brokerVars, fillVars, history, ledgerVars, sweepVars
    <2>2. QED
      BY <1>21, <2>1, WithdrawStep DEF FireReleases, history
  <1>22. ASSUME FireClaims PROVE Promise!Next \/ UNCHANGED Promise!vars
    <2>1. \A q \in Position : MayExit(q)' <= MayExit(q)
      BY <1>22 DEF MayExit, BlockedNeverSold, FireClaims, Mark, Least, bounds,
           brokerVars, fillVars, history, ledgerVars, sweepVars
    <2>2. QED
      BY <1>22, <2>1, WithdrawStep DEF FireClaims, history
  <1>23. ASSUME FireLosesClaim PROVE Promise!Next \/ UNCHANGED Promise!vars
    <2>1. \A q \in Position : MayExit(q)' <= MayExit(q)
      BY <1>23 DEF MayExit, BlockedNeverSold, FireLosesClaim, NextDue, Forget,
           bounds, brokerVars, fillVars, history, ledgerVars, sweepVars
    <2>2. QED
      BY <1>23, <2>1, WithdrawStep DEF FireLosesClaim, history
  <1>24. ASSUME ExitTaken PROVE Promise!Next \/ UNCHANGED Promise!vars
    <2>1. bcur \in Position /\ MayExit(bcur) > 0
           /\ MayExit(bcur)' = MayExit(bcur) - 1
      BY <1>24 DEF ExitTaken, MayExit, ledgerVars
    <2>2. \A q \in Position \ {bcur} : MayExit(q)' <= MayExit(q)
      BY <1>24 DEF ExitTaken, MayExit, ledgerVars
    <2>3. Promise!Exit(bcur)
      BY <1>24, <2>1, <2>2 DEF ExitTaken, Promise!Exit
    <2>4. QED
      BY <2>1, <2>3 DEF Promise!Next
  <1>25. ASSUME ExitDenied PROVE Promise!Next \/ UNCHANGED Promise!vars
    <2>1. \A q \in Position : MayExit(q)' <= MayExit(q)
      BY <1>25 DEF MayExit, BlockedNeverSold, ExitDenied, Mark, NextDue, Forget,
           bounds, brokerVars, fillVars, history, ledgerVars, sweepVars
    <2>2. QED
      BY <1>25, <2>1, WithdrawStep DEF ExitDenied, history
  <1>26. ASSUME ExitReturns PROVE Promise!Next \/ UNCHANGED Promise!vars
    <2>1. \A q \in Position : MayExit(q)' <= MayExit(q)
      BY <1>26 DEF MayExit, BlockedNeverSold, ExitReturns, Mark, NextDue, Forget,
           bounds, brokerVars, fillVars, history, ledgerVars, sweepVars
    <2>2. QED
      BY <1>26, <2>1, WithdrawStep DEF ExitReturns, history
  <1>27. ASSUME ExitBreaks PROVE Promise!Next \/ UNCHANGED Promise!vars
    <2>1. \A q \in Position : MayExit(q)' <= MayExit(q)
      BY <1>27 DEF MayExit, BlockedNeverSold, ExitBreaks, Mark, NextDue, Forget,
           bounds, brokerVars, fillVars, history, ledgerVars, sweepVars
    <2>2. QED
      BY <1>27, <2>1, WithdrawStep DEF ExitBreaks, history
  <1>28. ASSUME ExitUnrecorded PROVE Promise!Next \/ UNCHANGED Promise!vars
    <2>1. \A q \in Position : MayExit(q)' <= MayExit(q)
      BY <1>28 DEF MayExit, BlockedNeverSold, ExitUnrecorded, Fault, AbortTick,
           Forget, NextDue, Zero, brokerVars, fillVars, history, ledgerVars,
           sweepVars
    <2>2. QED
      BY <1>28, <2>1, WithdrawStep DEF ExitUnrecorded, history
  <1>29. ASSUME Restart PROVE Promise!Next \/ UNCHANGED Promise!vars
    <2>1. \A q \in Position : MayExit(q)' <= MayExit(q)
      BY <1>29 DEF MayExit, BlockedNeverSold, Restart, ForgetFill, ForgetSweep,
           Zero, AbortTick, Forget, brokerVars, history
    <2>2. QED
      BY <1>29, <2>1, WithdrawStep DEF Restart, history
  <1>30. ASSUME UNCHANGED vars PROVE Promise!Next \/ UNCHANGED Promise!vars
    BY <1>30 DEF Promise!vars, MayExit, vars, bounds, brakeVars, brokerVars,
           fillVars, history,
         ledgerVars, sweepVars
  <1>31. QED
    BY <1>1, <1>2, <1>3, <1>4, <1>5, <1>6, <1>7, <1>8, <1>9, <1>10, <1>11,
         <1>12, <1>13, <1>14, <1>15, <1>16, <1>17, <1>18, <1>19, <1>20, <1>21,
         <1>22, <1>23, <1>24, <1>25, <1>26, <1>27, <1>28, <1>29, <1>30 DEF
         Next, Broker, Owner, Fills, Portfolio, Syncer, Brake

\* Whatever the loops, the broker and the disk do, an exit always uses up a permit
\* that one record of the position gave.
THEOREM Refinement == Spec => KeepsExitPromise
<1>1. Init => Promise!Init
  BY DEF Init, Promise!Init, MayExit, Live, Zero
<1>2. (TypeOK /\ IInv) /\ [Next]_vars => [Promise!Next]_(Promise!vars)
  BY PromiseStep
<1>3. QED
  BY Inductive, <1>1, <1>2, PTL DEF Spec, KeepsExitPromise, Promise!Spec

=============================================================================
