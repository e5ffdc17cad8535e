-------------------------- MODULE OrderPathProofs --------------------------
(***************************************************************************)
(* Proofs about OrderPath for every set of approvals and proposals and      *)
(* every bound on crashes and failed writes.                                *)
(***************************************************************************)
EXTENDS OrderPath, TLAPS

LEMMA TypeStep ==
  ASSUME TypeOK, ControlInv, [Next]_vars PROVE TypeOK'
  <1> USE DEF TypeOK, ControlInv, Statuses, Verdicts, Policies, Resolving,
      Passive, Active,
             Window, platformVars, brokerVars, storeVars, execVars, faultVars
  <1>1. ASSUME NEW a \in Approval, OwnerGrants(a) PROVE TypeOK'
    BY <1>1 DEF OwnerGrants
  <1>2. ASSUME NEW a \in Approval, PlatformExpires(a) PROVE TypeOK'
    BY <1>2 DEF PlatformExpires
  <1>3. ASSUME NEW a \in Approval, ArtifactExpires(a) PROVE TypeOK'
    BY <1>3 DEF ArtifactExpires
  <1>4. ASSUME NEW a \in Approval, BrokerSettles(a) PROVE TypeOK'
    BY <1>4 DEF BrokerSettles
  <1>5. CASE PolicyChanges
    BY <1>5 DEF PolicyChanges
  <1>6. CASE BrokerAccepts
    BY <1>6 DEF BrokerAccepts
  <1>7. CASE CallDenied
    BY <1>7 DEF CallDenied
  <1>8. CASE CallBreaks
    BY <1>8 DEF CallBreaks
  <1>9. CASE BrokerRejects
    BY <1>9 DEF BrokerRejects
  <1>10. CASE CallReturns
    BY <1>10 DEF CallReturns
  <1>11. CASE StartPass
    BY <1>11 DEF StartPass
  <1>12. CASE DeliverDone
    BY <1>12 DEF DeliverDone
  <1>13. CASE SkipAdoption
    BY <1>13 DEF SkipAdoption, BeginResolve, Adopted
  <1>14. CASE FetchGranted
    BY <1>14 DEF FetchGranted
  <1>15. CASE AdoptIntent
    BY <1>15 DEF AdoptIntent
  <1>16. CASE AdoptIntentFails
    BY <1>16 DEF AdoptIntentFails, FileFails, BeginResolve, Adopted
  <1>17. CASE AdoptDone
    BY <1>17 DEF AdoptDone, BeginResolve, Adopted
  <1>18. CASE ResolveDone
    BY <1>18 DEF ResolveDone
  <1>19. CASE ReportFailure
    BY <1>19 DEF ReportFailure, ReachOrLose, Reach
  <1>20. CASE MarkSubmitted
    BY <1>20 DEF MarkSubmitted
  <1>21. CASE MarkSubmittedFails
    BY <1>21 DEF MarkSubmittedFails, FileFails
  <1>22. CASE DeliverFrozen
    BY <1>22 DEF DeliverFrozen, Deliver, ReachOrLose, Reach, NextIntent
  <1>23. CASE DropIntent
    BY <1>23 DEF DropIntent, NextIntent
  <1>24. CASE DropIntentFails
    BY <1>24 DEF DropIntentFails, FileFails, AbortPass, CutShort
  <1>25. ASSUME NEW a \in Approval, DeliverReport(a) PROVE TypeOK'
    BY <1>25 DEF DeliverReport, Deliver, ReachOrLose, Reach
  <1>26. ASSUME NEW a \in Approval, RefuseItem(a) PROVE TypeOK'
    BY <1>26 DEF RefuseItem, ReachOrLose, Reach
  <1>27. ASSUME NEW a \in Approval, AdoptLedger(a) PROVE TypeOK'
    BY <1>27 DEF AdoptLedger, MayAdopt, ProposalAdopted
  <1>28. ASSUME NEW a \in Approval, AdoptLedgerFails(a) PROVE TypeOK'
    BY <1>28 DEF AdoptLedgerFails, FileFails, BeginResolve, Adopted
  <1>29. ASSUME NEW a \in Approval, PollUnreachable(a) PROVE TypeOK'
    BY <1>29 DEF PollUnreachable
  <1>30. ASSUME NEW a \in Approval, PollDead(a) PROVE TypeOK'
    BY <1>30 DEF PollDead
  <1>31. ASSUME NEW a \in Approval, PollRefuse(a) PROVE TypeOK'
    BY <1>31 DEF PollRefuse, ReachOrLose, Reach
  <1>32. ASSUME NEW a \in Approval, PollRefuseAborts(a) PROVE TypeOK'
    BY <1>32 DEF PollRefuseAborts, ReachOrLose, Reach, AbortPass
  <1>33. ASSUME NEW a \in Approval, PollDefer(a) PROVE TypeOK'
    BY <1>33 DEF PollDefer
  <1>34. ASSUME NEW a \in Approval, PollSubmit(a) PROVE TypeOK'
    BY <1>34 DEF PollSubmit
  <1>35. CASE Crash
    BY <1>35 DEF Crash, CutShort
  <1>36. CASE Restart
    BY <1>36 DEF Restart
  <1>37. ASSUME NEW a \in Approval, SettleOrder(a) PROVE TypeOK'
    BY <1>37 DEF SettleOrder
  <1>38. CASE DropIntentBlind
    BY <1>38 DEF DropIntentBlind, FileFails, NextIntent
  <1>39. CASE UNCHANGED vars
    BY <1>39 DEF vars
  <1>40. QED
    BY <1>1, <1>2, <1>3, <1>4, <1>5, <1>6, <1>7, <1>8, <1>9, <1>10, <1>11,
        <1>12, <1>13, <1>14, <1>15, <1>16, <1>17, <1>18, <1>19, <1>20, <1>21, <1>22,
        <1>23, <1>24, <1>25, <1>26, <1>27, <1>28, <1>29, <1>30, <1>31, <1>32, <1>33,
        <1>34, <1>35, <1>36, <1>37, <1>38, <1>39
       DEF Next, Environment, CallStep, Executor

LEMMA InvStep ==
  ASSUME TypeOK, IInv, [Next]_vars PROVE IInv'
  <1> USE DEF TypeOK, IInv, ControlInv, ToldInv, UnplacedInv,
      OneApprovalPerProposal,
             LedgerFirst, RefusalIsHonestUnlessInterrupted, PendingIsSubmitted,
             Statuses, Dead, Verdicts,
             Resolving, Unsent, Adopted, Passive, Active, Window,
             platformVars, brokerVars, storeVars, execVars, faultVars
  <1>1. ASSUME NEW a \in Approval, OwnerGrants(a) PROVE IInv'
    BY <1>1 DEF OwnerGrants
  <1>2. ASSUME NEW a \in Approval, PlatformExpires(a) PROVE IInv'
    BY <1>2 DEF PlatformExpires
  <1>3. ASSUME NEW a \in Approval, ArtifactExpires(a) PROVE IInv'
    BY <1>3 DEF ArtifactExpires
  <1>4. ASSUME NEW a \in Approval, BrokerSettles(a) PROVE IInv'
    BY <1>4 DEF BrokerSettles
  <1>5. CASE PolicyChanges
    BY <1>5 DEF PolicyChanges
  <1>6. CASE BrokerAccepts
    BY <1>6 DEF BrokerAccepts
  <1>7. CASE CallDenied
    BY <1>7 DEF CallDenied
  <1>8. CASE CallBreaks
    BY <1>8 DEF CallBreaks
  <1>9. CASE BrokerRejects
    BY <1>9 DEF BrokerRejects
  <1>10. CASE CallReturns
    BY <1>10 DEF CallReturns
  <1>11. CASE StartPass
    BY <1>11 DEF StartPass
  <1>12. CASE DeliverDone
    BY <1>12 DEF DeliverDone
  <1>13. CASE SkipAdoption
    BY <1>13 DEF SkipAdoption, BeginResolve, Adopted
  <1>14. CASE FetchGranted
    BY <1>14 DEF FetchGranted
  <1>15. CASE AdoptIntent
    BY <1>15 DEF AdoptIntent
  <1>16. CASE AdoptIntentFails
    BY <1>16 DEF AdoptIntentFails, FileFails, BeginResolve, Adopted
  <1>17. CASE AdoptDone
    BY <1>17 DEF AdoptDone, BeginResolve, Adopted
  <1>18. CASE ResolveDone
    BY <1>18 DEF ResolveDone
  <1>19. CASE ReportFailure
    BY <1>19 DEF ReportFailure, ReachOrLose, Reach
  <1>20. CASE MarkSubmitted
    BY <1>20 DEF MarkSubmitted
  <1>21. CASE MarkSubmittedFails
    BY <1>21 DEF MarkSubmittedFails, FileFails
  <1>22. CASE DeliverFrozen
    BY <1>22 DEF DeliverFrozen, Deliver, ReachOrLose, Reach, NextIntent
  <1>23. CASE DropIntent
    BY <1>23 DEF DropIntent, NextIntent
  <1>24. CASE DropIntentFails
    BY <1>24 DEF DropIntentFails, FileFails, AbortPass, CutShort
  <1>25. ASSUME NEW a \in Approval, DeliverReport(a) PROVE IInv'
    BY <1>25 DEF DeliverReport, Deliver, ReachOrLose, Reach
  <1>26. ASSUME NEW a \in Approval, RefuseItem(a) PROVE IInv'
    BY <1>26 DEF RefuseItem, ReachOrLose, Reach
  <1>27. ASSUME NEW a \in Approval, AdoptLedger(a) PROVE IInv'
    BY <1>27 DEF AdoptLedger, MayAdopt, ProposalAdopted
  <1>28. ASSUME NEW a \in Approval, AdoptLedgerFails(a) PROVE IInv'
    BY <1>28 DEF AdoptLedgerFails, FileFails, BeginResolve, Adopted
  <1>29. ASSUME NEW a \in Approval, PollUnreachable(a) PROVE IInv'
    BY <1>29 DEF PollUnreachable
  <1>30. ASSUME NEW a \in Approval, PollDead(a) PROVE IInv'
    BY <1>30 DEF PollDead
  <1>31. ASSUME NEW a \in Approval, PollRefuse(a) PROVE IInv'
    BY <1>31 DEF PollRefuse, ReachOrLose, Reach
  <1>32. ASSUME NEW a \in Approval, PollRefuseAborts(a) PROVE IInv'
    BY <1>32 DEF PollRefuseAborts, ReachOrLose, Reach, AbortPass
  <1>33. ASSUME NEW a \in Approval, PollDefer(a) PROVE IInv'
    BY <1>33 DEF PollDefer
  <1>34. ASSUME NEW a \in Approval, PollSubmit(a) PROVE IInv'
    BY <1>34 DEF PollSubmit
  <1>35. CASE Crash
    BY <1>35 DEF Crash, CutShort
  <1>36. CASE Restart
    BY <1>36 DEF Restart
  <1>37. ASSUME NEW a \in Approval, SettleOrder(a) PROVE IInv'
    BY <1>37 DEF SettleOrder
  <1>38. CASE DropIntentBlind
    BY <1>38 DEF DropIntentBlind, FileFails, NextIntent
  <1>39. CASE UNCHANGED vars
    BY <1>39 DEF vars
  <1>40. QED
    BY <1>1, <1>2, <1>3, <1>4, <1>5, <1>6, <1>7, <1>8, <1>9, <1>10, <1>11,
        <1>12, <1>13, <1>14, <1>15, <1>16, <1>17, <1>18, <1>19, <1>20, <1>21, <1>22,
        <1>23, <1>24, <1>25, <1>26, <1>27, <1>28, <1>29, <1>30, <1>31, <1>32, <1>33,
        <1>34, <1>35, <1>36, <1>37, <1>38, <1>39
       DEF Next, Environment, CallStep, Executor

(***************************************************************************)
(* The inductive invariant and what follows from it.                        *)
(***************************************************************************)

\* Everything the safety proofs rest on holds in every reachable state.
THEOREM Inductive == Spec => [](TypeOK /\ IInv)
<1>1. Init => TypeOK /\ IInv
  BY OrderPathAssumption
     DEF Init, TypeOK, IInv, ControlInv, ToldInv, UnplacedInv,
         OneApprovalPerProposal,
         LedgerFirst, RefusalIsHonestUnlessInterrupted, PendingIsSubmitted,
         Statuses, Dead, Verdicts,
         Policies, Resolving, Unsent, Adopted, Passive, Active, Window
<1>2. TypeOK /\ IInv /\ [Next]_vars => (TypeOK /\ IInv)'
  BY TypeStep, InvStep DEF IInv
<1>3. QED
  BY <1>1, <1>2, PTL DEF Spec

\* Every variable keeps its type.
THEOREM TypeCorrect == Spec => []TypeOK
  BY Inductive, PTL

\* However often the owner grants a proposal, one approval of it is adopted.
THEOREM OneApproval == Spec => []OneApprovalPerProposal
<1>1. IInv => OneApprovalPerProposal
  BY DEF IInv
<1>2. QED
  BY Inductive, <1>1, PTL

\* The ledger is ahead of the intent store and of the broker.
THEOREM WriteAhead == Spec => []LedgerFirst
<1>1. IInv => LedgerFirst
  BY DEF IInv
<1>2. QED
  BY Inductive, <1>1, PTL

\* The ledger is sound, for any approvals, crashes and failed writes.
THEOREM SoundLedger == Spec => []LedgerSound
  BY OneApproval, WriteAhead, PTL DEF LedgerSound

\* The at-most-once promise of a proposal, with its one exemption: an approval
\* whose submission was cut short before a durable write recorded it.
THEOREM AtMostOnce == Spec => []AtMostOnceUnlessInterrupted
<1>1. TypeOK /\ IInv => AtMostOnceUnlessInterrupted
  BY DEF TypeOK, IInv, LedgerFirst, OneApprovalPerProposal,
      AtMostOnceUnlessInterrupted
<1>2. QED
  BY Inductive, <1>1, PTL

\* An order the platform was told was refused is not at the broker, with the
\* same exemption: of an approval whose submission was cut short, a later pass
\* may tell "refused" although the first call is at the broker.
THEOREM HonestRefusalUnlessInterrupted ==
  Spec => []RefusalIsHonestUnlessInterrupted
<1>1. IInv => RefusalIsHonestUnlessInterrupted
  BY DEF IInv
<1>2. QED
  BY Inductive, <1>1, PTL

\* A submitted intent is left alone by every step that reaches the broker.
LEMMA SubmittedStep ==
  ASSUME TypeOK, IInv, [Next]_vars,
         NEW s \in Approval, intent[s] = "submitted"
  PROVE  orders'[s] = orders[s] /\ intent'[s] # "adopted"
  <1> USE DEF TypeOK, IInv, ControlInv, Resolving, Passive, Active, Window,
             platformVars, brokerVars, storeVars, execVars, faultVars
  <1>1. ASSUME NEW a \in Approval, OwnerGrants(a)
        PROVE orders'[s] = orders[s] /\ intent'[s] # "adopted"
    BY <1>1 DEF OwnerGrants
  <1>2. ASSUME NEW a \in Approval, PlatformExpires(a)
        PROVE orders'[s] = orders[s] /\ intent'[s] # "adopted"
    BY <1>2 DEF PlatformExpires
  <1>3. ASSUME NEW a \in Approval, ArtifactExpires(a)
        PROVE orders'[s] = orders[s] /\ intent'[s] # "adopted"
    BY <1>3 DEF ArtifactExpires
  <1>4. ASSUME NEW a \in Approval, BrokerSettles(a)
        PROVE orders'[s] = orders[s] /\ intent'[s] # "adopted"
    BY <1>4 DEF BrokerSettles
  <1>5. CASE PolicyChanges
    BY <1>5 DEF PolicyChanges
  <1>6. CASE BrokerAccepts
    BY <1>6 DEF BrokerAccepts
  <1>7. CASE CallDenied
    BY <1>7 DEF CallDenied
  <1>8. CASE CallBreaks
    BY <1>8 DEF CallBreaks
  <1>9. CASE BrokerRejects
    BY <1>9 DEF BrokerRejects
  <1>10. CASE CallReturns
    BY <1>10 DEF CallReturns
  <1>11. CASE StartPass
    BY <1>11 DEF StartPass
  <1>12. CASE DeliverDone
    BY <1>12 DEF DeliverDone
  <1>13. CASE SkipAdoption
    BY <1>13 DEF SkipAdoption, BeginResolve, Adopted
  <1>14. CASE FetchGranted
    BY <1>14 DEF FetchGranted
  <1>15. CASE AdoptIntent
    BY <1>15 DEF AdoptIntent
  <1>16. CASE AdoptIntentFails
    BY <1>16 DEF AdoptIntentFails, FileFails, BeginResolve, Adopted
  <1>17. CASE AdoptDone
    BY <1>17 DEF AdoptDone, BeginResolve, Adopted
  <1>18. CASE ResolveDone
    BY <1>18 DEF ResolveDone
  <1>19. CASE ReportFailure
    BY <1>19 DEF ReportFailure, ReachOrLose, Reach
  <1>20. CASE MarkSubmitted
    BY <1>20 DEF MarkSubmitted
  <1>21. CASE MarkSubmittedFails
    BY <1>21 DEF MarkSubmittedFails, FileFails
  <1>22. CASE DeliverFrozen
    BY <1>22 DEF DeliverFrozen, Deliver, ReachOrLose, Reach, NextIntent
  <1>23. CASE DropIntent
    BY <1>23 DEF DropIntent, NextIntent
  <1>24. CASE DropIntentFails
    BY <1>24 DEF DropIntentFails, FileFails, AbortPass, CutShort
  <1>25. ASSUME NEW a \in Approval, DeliverReport(a)
        PROVE orders'[s] = orders[s] /\ intent'[s] # "adopted"
    BY <1>25 DEF DeliverReport, Deliver, ReachOrLose, Reach
  <1>26. ASSUME NEW a \in Approval, RefuseItem(a)
        PROVE orders'[s] = orders[s] /\ intent'[s] # "adopted"
    BY <1>26 DEF RefuseItem, ReachOrLose, Reach
  <1>27. ASSUME NEW a \in Approval, AdoptLedger(a)
        PROVE orders'[s] = orders[s] /\ intent'[s] # "adopted"
    BY <1>27 DEF AdoptLedger, MayAdopt, ProposalAdopted
  <1>28. ASSUME NEW a \in Approval, AdoptLedgerFails(a)
        PROVE orders'[s] = orders[s] /\ intent'[s] # "adopted"
    BY <1>28 DEF AdoptLedgerFails, FileFails, BeginResolve, Adopted
  <1>29. ASSUME NEW a \in Approval, PollUnreachable(a)
        PROVE orders'[s] = orders[s] /\ intent'[s] # "adopted"
    BY <1>29 DEF PollUnreachable
  <1>30. ASSUME NEW a \in Approval, PollDead(a)
        PROVE orders'[s] = orders[s] /\ intent'[s] # "adopted"
    BY <1>30 DEF PollDead
  <1>31. ASSUME NEW a \in Approval, PollRefuse(a)
        PROVE orders'[s] = orders[s] /\ intent'[s] # "adopted"
    BY <1>31 DEF PollRefuse, ReachOrLose, Reach
  <1>32. ASSUME NEW a \in Approval, PollRefuseAborts(a)
        PROVE orders'[s] = orders[s] /\ intent'[s] # "adopted"
    BY <1>32 DEF PollRefuseAborts, ReachOrLose, Reach, AbortPass
  <1>33. ASSUME NEW a \in Approval, PollDefer(a)
        PROVE orders'[s] = orders[s] /\ intent'[s] # "adopted"
    BY <1>33 DEF PollDefer
  <1>34. ASSUME NEW a \in Approval, PollSubmit(a)
        PROVE orders'[s] = orders[s] /\ intent'[s] # "adopted"
    BY <1>34 DEF PollSubmit
  <1>35. CASE Crash
    BY <1>35 DEF Crash, CutShort
  <1>36. CASE Restart
    BY <1>36 DEF Restart
  <1>37. ASSUME NEW a \in Approval, SettleOrder(a)
        PROVE orders'[s] = orders[s] /\ intent'[s] # "adopted"
    BY <1>37 DEF SettleOrder
  <1>38. CASE DropIntentBlind
    BY <1>38 DEF DropIntentBlind, FileFails, NextIntent
  <1>39. CASE UNCHANGED vars
    BY <1>39 DEF vars
  <1>40. QED
    BY <1>1, <1>2, <1>3, <1>4, <1>5, <1>6, <1>7, <1>8, <1>9, <1>10, <1>11,
        <1>12, <1>13, <1>14, <1>15, <1>16, <1>17, <1>18, <1>19, <1>20, <1>21, <1>22,
        <1>23, <1>24, <1>25, <1>26, <1>27, <1>28, <1>29, <1>30, <1>31, <1>32, <1>33,
        <1>34, <1>35, <1>36, <1>37, <1>38, <1>39
       DEF Next, Environment, CallStep, Executor

\* Once submitted is on disk, no loss, retry, crash or restart sends it again.
THEOREM SubmittedOnce == Spec => SubmittedNeverRepeats
<1>1. TypeOK /\ IInv /\ [Next]_vars =>
        [\A a \in Approval : (intent[a] = "submitted" =>
             orders'[a] = orders[a] /\ intent'[a] # "adopted")]_vars
  BY SubmittedStep
<1>2. QED
  BY Inductive, <1>1, PTL DEF Spec, SubmittedNeverRepeats

(***************************************************************************)
(* Refinement: OrderPath implements OrderPromise.                           *)
(***************************************************************************)

\* A report is one Tell of the promise, or invisible to it.
LEMMA TellStep ==
  ASSUME NEW a \in Approval, NEW v \in Verdicts, ReachOrLose(a, v),
         v = "refused" => a \in interrupted \/ orders[a] = 0,
         UNCHANGED <<orders, interrupted>>
  PROVE  Promise!Next \/ UNCHANGED Promise!vars
  BY DEF ReachOrLose, Reach, platformVars, Verdicts,
         Promise!Next, Promise!Tell, Promise!vars

LEMMA PromiseStep ==
  ASSUME TypeOK, IInv, [Next]_vars
  PROVE  Promise!Next \/ UNCHANGED Promise!vars
  <1> USE DEF Promise!vars, TypeOK, ControlInv, IInv, Resolving, Unsent,
      Passive, Active, Window,
             platformVars, brokerVars, storeVars, execVars, faultVars
  <1>1. ASSUME NEW a \in Approval, OwnerGrants(a)
        PROVE Promise!Next \/ UNCHANGED Promise!vars
    BY <1>1 DEF OwnerGrants
  <1>2. ASSUME NEW a \in Approval, PlatformExpires(a)
        PROVE Promise!Next \/ UNCHANGED Promise!vars
    BY <1>2 DEF PlatformExpires
  <1>3. ASSUME NEW a \in Approval, ArtifactExpires(a)
        PROVE Promise!Next \/ UNCHANGED Promise!vars
    BY <1>3 DEF ArtifactExpires
  <1>4. ASSUME NEW a \in Approval, BrokerSettles(a)
        PROVE Promise!Next \/ UNCHANGED Promise!vars
    BY <1>4 DEF BrokerSettles
  <1>5. CASE PolicyChanges
    BY <1>5 DEF PolicyChanges
  <1>6. CASE BrokerAccepts
    <2>1. cur \in Approval /\ Promise!Place(cur)
      BY <1>6 DEF BrokerAccepts, Promise!Place, UnplacedInv, ToldInv, LedgerFirst,
                  OneApprovalPerProposal
    <2>2. QED
      BY <2>1 DEF Promise!Next
  <1>7. CASE CallDenied
    BY <1>7 DEF CallDenied
  <1>8. CASE CallBreaks
    BY <1>8 DEF CallBreaks
  <1>9. CASE BrokerRejects
    BY <1>9 DEF BrokerRejects
  <1>10. CASE CallReturns
    BY <1>10 DEF CallReturns
  <1>11. CASE StartPass
    BY <1>11 DEF StartPass
  <1>12. CASE DeliverDone
    BY <1>12 DEF DeliverDone
  <1>13. CASE SkipAdoption
    BY <1>13 DEF SkipAdoption, BeginResolve, Adopted
  <1>14. CASE FetchGranted
    BY <1>14 DEF FetchGranted
  <1>15. CASE AdoptIntent
    BY <1>15 DEF AdoptIntent
  <1>16. CASE AdoptIntentFails
    BY <1>16 DEF AdoptIntentFails, FileFails, BeginResolve, Adopted
  <1>17. CASE AdoptDone
    BY <1>17 DEF AdoptDone, BeginResolve, Adopted
  <1>18. CASE ResolveDone
    BY <1>18 DEF ResolveDone
  <1>19. CASE ReportFailure
    <2>1. ReachOrLose(cur, (IF pc = "denied" THEN "refused" ELSE "unknown")) /\
        UNCHANGED <<orders, interrupted>>
      BY <1>19 DEF ReportFailure
    <2>2. cur \in Approval /\ ((IF pc = "denied" THEN "refused" ELSE "unknown")
        = "refused" => cur \in interrupted \/ orders[cur] = 0)
      BY <1>19 DEF ReportFailure, UnplacedInv
    <2>3. QED
      BY <2>1, <2>2, TellStep DEF Verdicts
  <1>20. CASE MarkSubmitted
    BY <1>20 DEF MarkSubmitted
  <1>21. CASE MarkSubmittedFails
    BY <1>21 DEF MarkSubmittedFails, FileFails
  <1>22. CASE DeliverFrozen
    <2>1. ReachOrLose(cur, "executed") /\ UNCHANGED <<orders, interrupted>>
      BY <1>22 DEF DeliverFrozen, Deliver, ReachOrLose
    <2>2. cur \in Approval /\ ("executed" = "refused" => cur \in interrupted \/
        orders[cur] = 0)
      BY <1>22 DEF DeliverFrozen
    <2>3. QED
      BY <2>1, <2>2, TellStep DEF Verdicts
  <1>23. CASE DropIntent
    BY <1>23 DEF DropIntent, NextIntent
  <1>24. CASE DropIntentFails
    <2>1. CASE pc \in Window /\ orders[cur] > 0
      <3>1. Promise!Break(cur)
        BY <1>24, <2>1 DEF DropIntentFails, CutShort, AbortPass, Promise!Break
      <3>2. QED
        BY <2>1, <3>1 DEF Promise!Next
    <2>2. CASE ~(pc \in Window /\ orders[cur] > 0)
      BY <1>24, <2>2 DEF DropIntentFails, CutShort, AbortPass
    <2>3. QED
      BY <2>1, <2>2
  <1>25. ASSUME NEW a \in Approval, DeliverReport(a)
        PROVE Promise!Next \/ UNCHANGED Promise!vars
    <2>1. ReachOrLose(a, "executed") /\ UNCHANGED <<orders, interrupted>>
      BY <1>25 DEF DeliverReport, Deliver, ReachOrLose
    <2>2. a \in Approval /\ ("executed" = "refused" => a \in interrupted \/
        orders[a] = 0)
      BY <1>25 DEF DeliverReport
    <2>3. QED
      BY <2>1, <2>2, TellStep DEF Verdicts
  <1>26. ASSUME NEW a \in Approval, RefuseItem(a)
        PROVE Promise!Next \/ UNCHANGED Promise!vars
    <2>1. ReachOrLose(a, "refused") /\ UNCHANGED <<orders, interrupted>>
      BY <1>26 DEF RefuseItem
    <2>2. a \in Approval /\ ("refused" = "refused" => a \in interrupted \/
        orders[a] = 0)
      BY <1>26 DEF RefuseItem, LedgerFirst
    <2>3. QED
      BY <2>1, <2>2, TellStep DEF Verdicts
  <1>27. ASSUME NEW a \in Approval, AdoptLedger(a)
        PROVE Promise!Next \/ UNCHANGED Promise!vars
    BY <1>27 DEF AdoptLedger, MayAdopt, ProposalAdopted
  <1>28. ASSUME NEW a \in Approval, AdoptLedgerFails(a)
        PROVE Promise!Next \/ UNCHANGED Promise!vars
    BY <1>28 DEF AdoptLedgerFails, FileFails, BeginResolve, Adopted
  <1>29. ASSUME NEW a \in Approval, PollUnreachable(a)
        PROVE Promise!Next \/ UNCHANGED Promise!vars
    BY <1>29 DEF PollUnreachable
  <1>30. ASSUME NEW a \in Approval, PollDead(a)
        PROVE Promise!Next \/ UNCHANGED Promise!vars
    BY <1>30 DEF PollDead
  <1>31. ASSUME NEW a \in Approval, PollRefuse(a)
        PROVE Promise!Next \/ UNCHANGED Promise!vars
    <2>1. ReachOrLose(a, "refused") /\ UNCHANGED <<orders, interrupted>>
      BY <1>31 DEF PollRefuse
    <2>2. a \in Approval /\ ("refused" = "refused" => a \in interrupted \/
        orders[a] = 0)
      BY <1>31 DEF PollRefuse, UnplacedInv
    <2>3. QED
      BY <2>1, <2>2, TellStep DEF Verdicts
  <1>32. ASSUME NEW a \in Approval, PollRefuseAborts(a)
        PROVE Promise!Next \/ UNCHANGED Promise!vars
    <2>1. ReachOrLose(a, "refused") /\ UNCHANGED <<orders, interrupted>>
      BY <1>32 DEF PollRefuseAborts
    <2>2. a \in Approval /\ ("refused" = "refused" => a \in interrupted \/
        orders[a] = 0)
      BY <1>32 DEF PollRefuseAborts, UnplacedInv
    <2>3. QED
      BY <2>1, <2>2, TellStep DEF Verdicts
  <1>33. ASSUME NEW a \in Approval, PollDefer(a)
        PROVE Promise!Next \/ UNCHANGED Promise!vars
    BY <1>33 DEF PollDefer
  <1>34. ASSUME NEW a \in Approval, PollSubmit(a)
        PROVE Promise!Next \/ UNCHANGED Promise!vars
    BY <1>34 DEF PollSubmit
  <1>35. CASE Crash
    <2>1. CASE pc \in Window /\ orders[cur] > 0
      <3>1. Promise!Break(cur)
        BY <1>35, <2>1 DEF Crash, CutShort, Promise!Break
      <3>2. QED
        BY <2>1, <3>1 DEF Promise!Next
    <2>2. CASE ~(pc \in Window /\ orders[cur] > 0)
      BY <1>35, <2>2 DEF Crash, CutShort
    <2>3. QED
      BY <2>1, <2>2
  <1>36. CASE Restart
    BY <1>36 DEF Restart
  <1>37. ASSUME NEW a \in Approval, SettleOrder(a)
        PROVE Promise!Next \/ UNCHANGED Promise!vars
    BY <1>37 DEF SettleOrder
  <1>38. CASE DropIntentBlind
    BY <1>38 DEF DropIntentBlind, FileFails, NextIntent
  <1>39. CASE UNCHANGED vars
    BY <1>39 DEF vars
  <1>40. QED
    BY <1>1, <1>2, <1>3, <1>4, <1>5, <1>6, <1>7, <1>8, <1>9, <1>10, <1>11,
        <1>12, <1>13, <1>14, <1>15, <1>16, <1>17, <1>18, <1>19, <1>20, <1>21, <1>22,
        <1>23, <1>24, <1>25, <1>26, <1>27, <1>28, <1>29, <1>30, <1>31, <1>32, <1>33,
        <1>34, <1>35, <1>36, <1>37, <1>38, <1>39
       DEF Next, Environment, CallStep, Executor

\* The order path implements the promise it makes to its owner.
THEOREM Refinement == Spec => KeepsPromise
<1>1. Init => Promise!Init
  BY DEF Init, Promise!Init
<1>2. TypeOK /\ IInv /\ [Next]_vars => [Promise!Next]_(Promise!vars)
  BY PromiseStep
<1>3. QED
  BY Inductive, <1>1, <1>2, PTL DEF Spec, KeepsPromise, Promise!Spec

=============================================================================
