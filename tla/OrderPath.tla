----------------------------- MODULE OrderPath -----------------------------
(***************************************************************************)
(* The way an owner-granted order proposal reaches the broker: adoption     *)
(* (edge/proposals.py), the local intent store (edge/remote.py), one        *)
(* executor pass (edge/executor.py, poll_once) and the end of a submitted   *)
(* order (reconcile_submitted_fills).  The platform and the broker are      *)
(* modelled from how the edge uses them.                                    *)
(*                                                                         *)
(* Granularity.  The executor is one coroutine; it gives way to the other   *)
(* loops only at its sleep and inside `await hub.call`, but the process can *)
(* die between any two durable writes or calls.  So each step below is one  *)
(* durable write or one exchange with the platform or the broker, and       *)
(* SettleOrder, which belongs to the fills loop, runs only where the        *)
(* executor is suspended.                                                   *)
(***************************************************************************)
EXTENDS Naturals, FiniteSets

CONSTANTS
  Approval,       \* approval ids, the keys of the ledger and the intent store
  Proposal,       \* proposal ids
  ProposalOf,     \* the proposal each approval grants
  Sound,          \* approvals whose signed item matches the local map, account and agent
  NoApproval,     \* no approval is being handled
  MaxCrashes,     \* bound: how often the process may die
  MaxFileFails   \* bound: how many file operations may raise (a full disk, no descriptor)

ASSUME OrderPathAssumption ==
  /\ ProposalOf \in [Approval -> Proposal]
  /\ Sound \subseteq Approval
  /\ NoApproval \notin Approval
  /\ MaxCrashes \in Nat /\ MaxFileFails \in Nat

VARIABLES
  grant,         \* platform: the status of each approval
  live,          \* approvals whose artifact has not passed its expires_at
  told,          \* platform: the execution reports that arrived, per approval
  orders,        \* broker: how many orders it accepted for each approval
  fill,          \* broker: what became of the order it accepted
  policy,        \* the cached bundle and the local disarm file, as a check reads them
  ledger,        \* proposals-adopted.json
  intent,        \* intents.json: absent, adopted, or phase=submitted
  pending,       \* intents carrying a pending_execution_report
  named,         \* intents carrying a nonempty broker_order_id
  pc, todo, cur, \* the executor: where it is, what its loop has left, whom it handles
  interrupted,   \* history: approvals whose submission was cut before it was recorded
  crashes, fileFails

platformVars == <<grant, live, told>>
brokerVars   == <<orders, fill>>
storeVars    == <<ledger, intent, pending, named>>
execVars     == <<pc, todo, cur>>
faultVars    == <<interrupted, crashes, fileFails>>
vars == <<platformVars, brokerVars, policy, storeVars, execVars, faultVars>>

Statuses == {"pending", "granted", "expired", "error", "executed"}
Dead     == {"expired", "error", "executed"}
Verdicts == {"refused", "unknown", "executed"}
Policies == {"good", "stale", "disarmed", "torn"}
Passive  == {"down", "idle", "deliver", "adopt", "adopting", "resolve"}
\* From the broker's acceptance until a durable write records the attempt.
Window   == {"inflight", "accepted", "anonymous", "failed", "dropping"}
Active   == Window \cup {"ledgered", "calling", "denied", "delivering"}

TypeOK ==
  /\ grant \in [Approval -> Statuses]
  /\ live \in SUBSET Approval
  /\ told \in [Approval -> SUBSET Verdicts]
  /\ orders \in [Approval -> Nat]
  /\ fill \in [Approval -> {"none", "working", "filled", "dead"}]
  /\ policy \in Policies
  /\ ledger \in SUBSET Approval
  /\ intent \in [Approval -> {"none", "adopted", "submitted"}]
  /\ pending \in SUBSET Approval
  /\ named \in SUBSET Approval
  /\ pc \in Passive \cup Active
  /\ todo \in SUBSET Approval
  /\ cur \in Approval \cup {NoApproval}
  /\ interrupted \in SUBSET Approval
  /\ crashes \in Nat /\ fileFails \in Nat

Init ==
  /\ grant = [a \in Approval |-> "pending"]
  /\ live = Approval
  /\ told = [a \in Approval |-> {}]
  /\ orders = [a \in Approval |-> 0]
  /\ fill = [a \in Approval |-> "none"]
  /\ policy = "good"
  /\ ledger = {}
  /\ intent = [a \in Approval |-> "none"]
  /\ pending = {} /\ named = {}
  /\ pc = "idle" /\ todo = {} /\ cur = NoApproval
  /\ interrupted = {} /\ crashes = 0 /\ fileFails = 0

----------------------------------------------------------------------------
(* The environment: owner, platform, broker and clock.                      *)

\* The owner approves the proposal and the platform signs the artifact.
OwnerGrants(a) ==
  /\ grant[a] = "pending"
  /\ grant' = [grant EXCEPT ![a] = "granted"]
  /\ UNCHANGED <<live, told, brokerVars, policy, storeVars, execVars, faultVars>>

\* A request or a grant nobody carried out lapses (or is denied) on the platform.
PlatformExpires(a) ==
  /\ grant[a] \in {"pending", "granted"}
  /\ grant' = [grant EXCEPT ![a] = "expired"]
  /\ UNCHANGED <<live, told, brokerVars, policy, storeVars, execVars, faultVars>>

\* time.time() passes the artifact's expires_at.
ArtifactExpires(a) ==
  /\ a \in live
  /\ live' = live \ {a}
  /\ UNCHANGED <<grant, told, brokerVars, policy, storeVars, execVars, faultVars>>

\* The sync thread, the platform's dial and `nakagai-edge brake off` change what
\* the next check reads: fresh and armed, stale, disarmed, or a half-written
\* bundle that reads as None (no key; absent means armed).
PolicyChanges ==
  /\ policy' \in Policies \ {policy}
  /\ UNCHANGED <<platformVars, brokerVars, storeVars, execVars, faultVars>>

\* A working order fills, or reaches a terminal status without a fill.
BrokerSettles(a) ==
  /\ fill[a] = "working"
  /\ \E f \in {"filled", "dead"} : fill' = [fill EXCEPT ![a] = f]
  /\ UNCHANGED <<platformVars, orders, policy, storeVars, execVars, faultVars>>

----------------------------------------------------------------------------
(* Helpers.                                                                 *)

\* POST /execution arrived: only a granted approval takes the report.
Reach(a, verdict) ==
  /\ told' = [told EXCEPT ![a] = @ \cup {verdict}]
  /\ grant' = [grant EXCEPT ![a] =
       IF @ # "granted" THEN @
       ELSE IF verdict = "executed" THEN "executed" ELSE "error"]
  /\ live' = live

\* What the platform does with a report that may be lost on the way.
ReachOrLose(a, verdict) == Reach(a, verdict) \/ UNCHANGED platformVars

\* armed(state): an unreadable bundle counts as armed.
Armed == policy # "disarmed"

\* public_key(state): the cached bundle could be read.
KeyReadable == policy # "torn"

\* _verify: the artifact authorizes exactly the local intent, now.
Verified(a) == KeyReadable /\ a \in Sound /\ a \in live

\* Mutant of ProposalAdopted: the ledger is asked for this approval only.
ApprovalAdopted(a) == a \in ledger

\* Some approval of the same proposal is in the durable ledger.
ProposalAdopted(a) == \E b \in ledger : ProposalOf[b] = ProposalOf[a]

\* _refusal, the ledger scan and the brake check of adopt_granted_proposals.
MayAdopt(a) == Verified(a) /\ ~ProposalAdopted(a) /\ Armed

Adopted == {a \in Approval : intent[a] = "adopted"}

\* list(intents(state).items()) at the top of the second loop of poll_once.
BeginResolve == pc' = "resolve" /\ todo' = Adopted /\ cur' = NoApproval

\* The exception leaves poll_once; executor() swallows it and sleeps.
AbortPass == pc' = "idle" /\ todo' = {} /\ cur' = NoApproval

\* Back to the second loop, with the rest of its snapshot.
NextIntent == pc' = "resolve" /\ cur' = NoApproval /\ todo' = todo

\* EdgeState._write_private raised: the previous file is still there.
FileFails ==
  /\ fileFails < MaxFileFails
  /\ fileFails' = fileFails + 1

\* History: the broker has the order, and no durable write says so yet.
CutShort ==
  interrupted' = IF pc \in Window /\ orders[cur] > 0
                 THEN interrupted \cup {cur} ELSE interrupted

----------------------------------------------------------------------------
(* The executor: the reports frozen beside submitted intents.               *)

StartPass ==
  /\ pc = "idle"
  /\ pc' = "deliver"
  /\ todo' = {a \in pending : intent[a] = "submitted"}
  /\ UNCHANGED <<platformVars, brokerVars, policy, storeVars, cur, faultVars>>

\* Mutant of Deliver: the acknowledged report is never cleared.
DeliverUncleared(a) ==
  /\ UNCHANGED <<brokerVars, policy, ledger, intent, named, faultVars, pending>>
  /\ ReachOrLose(a, "executed")

\* _deliver_pending_execution_report: lost, or arrived without the exact ack
\* reaching a durable clear, or acknowledged and cleared.
Deliver(a) ==
  /\ UNCHANGED <<brokerVars, policy, ledger, intent, named, faultVars>>
  /\ \/ ReachOrLose(a, "executed") /\ pending' = pending
     \/ Reach(a, "executed") /\ grant'[a] = "executed" /\ pending' = pending \ {a}

DeliverReport(a) ==
  /\ pc = "deliver" /\ a \in todo
  /\ todo' = todo \ {a}
  /\ Deliver(a)
  /\ UNCHANGED <<pc, cur>>

DeliverDone ==
  /\ pc = "deliver" /\ todo = {}
  /\ pc' = "adopt"
  /\ UNCHANGED <<platformVars, brokerVars, policy, storeVars, todo, cur, faultVars>>

----------------------------------------------------------------------------
(* adopt_granted_proposals.                                                 *)

\* Stale policy, an unreadable ledger or an unreachable platform: adopt nothing.
SkipAdoption ==
  /\ pc = "adopt"
  /\ BeginResolve
  /\ UNCHANGED <<platformVars, brokerVars, policy, storeVars, faultVars>>

\* The platform's granted list, less what is held or in the ledger.
FetchGranted ==
  /\ pc = "adopt" /\ policy # "stale"
  /\ pc' = "adopting"
  /\ todo' = {a \in Approval \ ledger : grant[a] = "granted" /\ intent[a] = "none"}
  /\ UNCHANGED <<platformVars, brokerVars, policy, storeVars, cur, faultVars>>

RefuseItem(a) ==
  /\ pc = "adopting" /\ a \in todo /\ ~MayAdopt(a)
  /\ ReachOrLose(a, "refused")
  /\ todo' = todo \ {a}
  /\ UNCHANGED <<brokerVars, policy, storeVars, pc, cur, faultVars>>

\* The ledger is written first.
AdoptLedger(a) ==
  /\ pc = "adopting" /\ a \in todo /\ MayAdopt(a)
  /\ ledger' = ledger \cup {a}
  /\ pc' = "ledgered" /\ cur' = a /\ todo' = todo \ {a}
  /\ UNCHANGED <<platformVars, brokerVars, policy, intent, pending, named, faultVars>>

AdoptLedgerFails(a) ==
  /\ pc = "adopting" /\ a \in todo /\ MayAdopt(a)
  /\ FileFails /\ BeginResolve
  /\ UNCHANGED <<platformVars, brokerVars, policy, storeVars, interrupted, crashes>>

AdoptIntent ==
  /\ pc = "ledgered"
  /\ intent' = [intent EXCEPT ![cur] = "adopted"]
  /\ pc' = "adopting" /\ cur' = NoApproval
  /\ UNCHANGED <<platformVars, brokerVars, policy, ledger, pending, named, todo, faultVars>>

AdoptIntentFails ==
  /\ pc = "ledgered"
  /\ FileFails /\ BeginResolve
  /\ UNCHANGED <<platformVars, brokerVars, policy, storeVars, interrupted, crashes>>

AdoptDone ==
  /\ pc = "adopting" /\ todo = {}
  /\ BeginResolve
  /\ UNCHANGED <<platformVars, brokerVars, policy, storeVars, faultVars>>

----------------------------------------------------------------------------
(* The executor: resolving adopted intents.                                 *)

\* get_approval failed, or answered a status that is neither dead nor granted
\* (an audit write that raises and ends the pass looks the same from outside).
PollUnreachable(a) ==
  /\ pc = "resolve" /\ a \in todo
  /\ todo' = todo \ {a}
  /\ UNCHANGED <<platformVars, brokerVars, policy, storeVars, pc, cur, faultVars>>

\* DEAD_STATUSES: journal it and drop the intent.
PollDead(a) ==
  /\ pc = "resolve" /\ a \in todo /\ grant[a] \in Dead
  /\ pc' = "dropping" /\ cur' = a /\ todo' = todo \ {a}
  /\ UNCHANGED <<platformVars, brokerVars, policy, storeVars, faultVars>>

\* The artifact does not verify, or the brake is disarmed: tell the platform,
\* then drop.
PollRefuse(a) ==
  /\ pc = "resolve" /\ a \in todo /\ grant[a] = "granted"
  /\ ~Verified(a) \/ policy = "disarmed"
  /\ ReachOrLose(a, "refused")
  /\ pc' = "dropping" /\ cur' = a /\ todo' = todo \ {a}
  /\ UNCHANGED <<brokerVars, policy, storeVars, faultVars>>

\* On the verification path only EdgeClientError is caught, so a transport
\* error (which may hide that the report arrived) ends the pass.
PollRefuseAborts(a) ==
  /\ pc = "resolve" /\ a \in todo /\ grant[a] = "granted" /\ ~Verified(a)
  /\ ReachOrLose(a, "refused")
  /\ AbortPass
  /\ UNCHANGED <<brokerVars, policy, storeVars, faultVars>>

\* Mutant of PollDefer: freshness is checked before the artifact.
DeferUnverified(a) ==
  /\ pc = "resolve" /\ a \in todo /\ grant[a] = "granted"
  /\ policy = "stale"
  /\ todo' = todo \ {a}
  /\ UNCHANGED <<platformVars, brokerVars, policy, storeVars, pc, cur, faultVars>>

\* The grant is good but the policy is stale: keep the intent, report nothing.
PollDefer(a) ==
  /\ pc = "resolve" /\ a \in todo /\ grant[a] = "granted"
  /\ Verified(a) /\ policy = "stale"
  /\ todo' = todo \ {a}
  /\ UNCHANGED <<platformVars, brokerVars, policy, storeVars, pc, cur, faultVars>>

\* Every check passed: await hub.call(..., approved=True).
PollSubmit(a) ==
  /\ pc = "resolve" /\ a \in todo /\ grant[a] = "granted"
  /\ Verified(a) /\ policy = "good"
  /\ pc' = "calling" /\ cur' = a /\ todo' = todo \ {a}
  /\ UNCHANGED <<platformVars, brokerVars, policy, storeVars, faultVars>>

ResolveDone ==
  /\ pc = "resolve" /\ todo = {}
  /\ pc' = "idle"
  /\ UNCHANGED <<platformVars, brokerVars, policy, storeVars, todo, cur, faultVars>>

----------------------------------------------------------------------------
(* The executor: one broker call and what is made of its outcome.           *)

\* The broker takes the order; its answer is still on the way.
BrokerAccepts ==
  /\ pc = "calling"
  /\ orders' = [orders EXCEPT ![cur] = @ + 1]
  /\ fill' = [fill EXCEPT ![cur] = "working"]
  /\ pc' = "inflight"
  /\ UNCHANGED <<platformVars, policy, storeVars, todo, cur, faultVars>>

\* GuardrailDenied, raised before anything left the machine.
CallDenied ==
  /\ pc = "calling"
  /\ pc' = "denied"
  /\ UNCHANGED <<platformVars, brokerVars, policy, storeVars, todo, cur, faultVars>>

\* Any other exception: the connection never came up, or it broke after the
\* order was taken.
CallBreaks ==
  /\ pc \in {"calling", "inflight"}
  /\ pc' = "failed"
  /\ UNCHANGED <<platformVars, brokerVars, policy, storeVars, todo, cur, faultVars>>

\* The broker's tool answers with is_error: hub.call returns it as a result.
BrokerRejects ==
  /\ pc = "calling"
  /\ pc' = "anonymous"
  /\ UNCHANGED <<platformVars, brokerVars, policy, storeVars, todo, cur, faultVars>>

\* The acceptance arrives, with or without an order id the map can read.
CallReturns ==
  /\ pc = "inflight"
  /\ pc' \in {"accepted", "anonymous"}
  /\ UNCHANGED <<platformVars, brokerVars, policy, storeVars, todo, cur, faultVars>>

\* Mutant of ReportFailure: outcome_unknown is never set.
ReportRefused ==
  /\ pc \in {"denied", "failed"}
  /\ ReachOrLose(cur, "refused")
  /\ pc' = "dropping"
  /\ UNCHANGED <<brokerVars, policy, storeVars, todo, cur, faultVars>>

\* The except branch: report ok=False, outcome_unknown unless GuardrailDenied.
ReportFailure ==
  /\ pc \in {"denied", "failed"}
  /\ ReachOrLose(cur, IF pc = "denied" THEN "refused" ELSE "unknown")
  /\ pc' = "dropping"
  /\ UNCHANGED <<brokerVars, policy, storeVars, todo, cur, faultVars>>

\* Mutant of MarkSubmitted: the report is frozen and the phase is not.
FreezeReportOnly ==
  /\ pc \in {"accepted", "anonymous"} /\ intent[cur] = "adopted"
  /\ pending' = pending \cup {cur}
  /\ pc' = "delivering"
  /\ UNCHANGED <<platformVars, brokerVars, policy, ledger, intent, named, todo, cur,
                 faultVars>>

\* mark_submitted: phase, order id and the frozen report in one write.
MarkSubmitted ==
  /\ pc \in {"accepted", "anonymous"} /\ intent[cur] = "adopted"
  /\ intent' = [intent EXCEPT ![cur] = "submitted"]
  /\ pending' = pending \cup {cur}
  /\ named' = IF pc = "accepted" THEN named \cup {cur} ELSE named \ {cur}
  /\ pc' = "delivering"
  /\ UNCHANGED <<platformVars, brokerVars, policy, ledger, todo, cur, faultVars>>

\* mark_submitted raised, on the file or because the intent disappeared: alert
\* the owner, then fall through to the drop.
MarkSubmittedFails ==
  /\ pc \in {"accepted", "anonymous"}
  /\ FileFails \/ (intent[cur] = "none" /\ fileFails' = fileFails)
  /\ pc' = "dropping"
  /\ UNCHANGED <<platformVars, brokerVars, policy, storeVars, todo, cur,
                 interrupted, crashes>>

DeliverFrozen ==
  /\ pc = "delivering"
  /\ Deliver(cur)
  /\ NextIntent

\* drop_intent.
DropIntent ==
  /\ pc = "dropping"
  /\ intent' = [intent EXCEPT ![cur] = "none"]
  /\ NextIntent
  /\ UNCHANGED <<platformVars, brokerVars, policy, ledger, pending, named, faultVars>>

\* drop_intent could not read the store, took it for empty and wrote it back:
\* every intent is gone.
DropIntentBlind ==
  /\ pc = "dropping"
  /\ FileFails
  /\ intent' = [a \in Approval |-> "none"] /\ pending' = {} /\ named' = {}
  /\ NextIntent
  /\ UNCHANGED <<platformVars, brokerVars, policy, ledger, interrupted, crashes>>

\* drop_intent raised: the intent is still adopted when the pass ends.
DropIntentFails ==
  /\ pc = "dropping"
  /\ FileFails
  /\ CutShort
  /\ AbortPass
  /\ UNCHANGED <<platformVars, brokerVars, policy, storeVars, crashes>>

----------------------------------------------------------------------------
(* The fills loop and the life of the process.                              *)

\* reconcile_submitted_fills met the order's terminal row and dropped the
\* intent.  The fills loop runs only while the executor is suspended.
SettleOrder(a) ==
  /\ pc \in {"idle", "calling", "inflight"}
  /\ intent[a] = "submitted" /\ a \notin pending /\ a \in named
  /\ fill[a] \in {"filled", "dead"}
  /\ intent' = [intent EXCEPT ![a] = "none"] /\ named' = named \ {a}
  /\ UNCHANGED <<platformVars, brokerVars, policy, ledger, pending, execVars, faultVars>>

\* The process dies, or SIGTERM cancels the executor's task.
Crash ==
  /\ pc # "down" /\ crashes < MaxCrashes
  /\ crashes' = crashes + 1
  /\ CutShort
  /\ pc' = "down" /\ todo' = {} /\ cur' = NoApproval
  /\ UNCHANGED <<platformVars, brokerVars, policy, storeVars, fileFails>>

Restart ==
  /\ pc = "down"
  /\ pc' = "idle"
  /\ UNCHANGED <<platformVars, brokerVars, policy, storeVars, todo, cur, faultVars>>

Environment ==
  \/ \E a \in Approval :
       OwnerGrants(a) \/ PlatformExpires(a) \/ ArtifactExpires(a) \/ BrokerSettles(a)
  \/ PolicyChanges

\* The hub call of the intent in hand.
CallStep ==
  \/ BrokerAccepts \/ CallDenied \/ CallBreaks \/ BrokerRejects \/ CallReturns

\* poll_once, the hub call apart.
Executor ==
  \/ StartPass \/ DeliverDone \/ SkipAdoption \/ FetchGranted \/ AdoptIntent
  \/ AdoptIntentFails \/ AdoptDone \/ ResolveDone \/ ReportFailure
  \/ MarkSubmitted \/ MarkSubmittedFails \/ DeliverFrozen \/ DropIntent
  \/ DropIntentFails \/ DropIntentBlind
  \/ \E a \in Approval :
       \/ DeliverReport(a) \/ RefuseItem(a) \/ AdoptLedger(a) \/ AdoptLedgerFails(a)
       \/ PollUnreachable(a) \/ PollDead(a) \/ PollRefuse(a) \/ PollRefuseAborts(a)
       \/ PollDefer(a) \/ PollSubmit(a)

Next ==
  \/ Environment \/ Executor \/ CallStep \/ Crash \/ Restart
  \/ \E a \in Approval : SettleOrder(a)

Spec == Init /\ [][Next]_vars

(***************************************************************************)
(* Fairness.  The executor and the hub call always make progress while the  *)
(* process lives: every synchronous step ends and a hub call ends at its    *)
(* read timeout.  The clock reaches expires_at.  The platform is not        *)
(* unreachable forever: a poll or a report that is attempted again and      *)
(* again eventually gets its answer, and the fills loop eventually finds    *)
(* the executor asleep.                                                     *)
(***************************************************************************)
AckReport(a) == DeliverReport(a) /\ a \notin pending'
Answered(a)  == PollDead(a) \/ PollRefuse(a) \/ PollDefer(a) \/ PollSubmit(a)

Fairness ==
  /\ WF_vars(Executor) /\ WF_vars(CallStep)
  /\ \A a \in Approval :
       /\ WF_vars(ArtifactExpires(a))
       /\ SF_vars(AckReport(a)) /\ SF_vars(Answered(a)) /\ SF_vars(SettleOrder(a))

FairSpec == Spec /\ Fairness

----------------------------------------------------------------------------
(* Properties.                                                              *)

\* A proposal has one approval in the ledger for good, however often the
\* owner grants it again (proposals.py, adopt_granted_proposals).
OneApprovalPerProposal ==
  \A a, b \in ledger : ProposalOf[a] = ProposalOf[b] => a = b

\* No order reaches the broker, and no intent exists, for an approval that is
\* not in the durable ledger: the write-ahead order of adoption.
LedgerFirst ==
  \A a \in Approval : (intent[a] # "none" \/ orders[a] > 0) => a \in ledger

\* The adoption ledger is sound: ahead of intents and orders, and one approval of
\* a proposal for good.
LedgerSound == LedgerFirst /\ OneApprovalPerProposal

\* One order per proposal, unless the process died or the drop failed between
\* the broker's acceptance and the durable record of it; and then still never
\* for two approvals of one proposal.
AtMostOnceUnlessInterrupted ==
  /\ \A a \in Approval \ interrupted : orders[a] <= 1
  /\ \A a, b \in Approval :
       orders[a] > 0 /\ orders[b] > 0 /\ ProposalOf[a] = ProposalOf[b] => a = b

\* The platform is not told that an order was refused, as opposed to unknown,
\* while the broker has it, EXCEPT of an approval whose submission was cut short
\* (death, or a drop_intent that raised, between the broker's acceptance and
\* mark_submitted). Of that one it may be told just this: the intent is still
\* adopted, and the next pass refuses it when its artifact has expired or the
\* brake is off (PollRefuse; executor.py:479-523), or the guard denies the
\* repeated call (ReportFailure), although the first call is at the broker.
RefusalIsHonestUnlessInterrupted ==
  \A a \in Approval \ interrupted : "refused" \in told[a] => orders[a] = 0

\* An approval whose report is still owed is a submitted one, and one that was
\* submitted is never handed back to the submitting loop.
PendingIsSubmitted == \A a \in pending : intent[a] = "submitted"

\* Once submitted is on disk the broker never gets that order again, whatever
\* is lost, retried or restarted afterwards.
SubmittedNeverRepeats ==
  [][\A a \in Approval : (intent[a] = "submitted" =>
        orders'[a] = orders[a] /\ intent'[a] # "adopted")]_vars

\* An adopted intent does not stay adopted forever, even when the policy stays
\* stale: verification comes before the freshness check, so expiry ends it.
AdoptedIsResolved ==
  \A a \in Approval : intent[a] = "adopted" ~> intent[a] # "adopted"

\* A filled order with a known id leaves the intent store for supervision or
\* an alert, unless the platform closed the approval and never acknowledges.
FillIsReconciled ==
  \A a \in Approval :
    (intent[a] = "submitted" /\ a \in named /\ fill[a] = "filled")
      ~> (intent[a] = "none" \/ grant[a] \in {"expired", "error"})

----------------------------------------------------------------------------
(* The inductive invariant behind the safety properties.                    *)

\* The second loop of poll_once.
Resolving == {"resolve"} \cup (Active \ {"ledgered"})

\* Whom the executor is handling, and what its loop snapshot may still hold.
ControlInv ==
  /\ pc \in Passive => cur = NoApproval
  /\ pc \in Active => cur \in Approval /\ cur \notin todo
  /\ pc \in Active \ {"ledgered", "delivering"} => intent[cur] # "submitted"
  /\ pc \in Active => cur \in ledger
  /\ pc = "delivering" => intent[cur] = "submitted"
  /\ pc = "ledgered" => intent[cur] = "none" /\ orders[cur] = 0 /\ told[cur] = {}
  /\ pc = "deliver" => \A a \in todo : intent[a] = "submitted"
  /\ pc \in {"adopting", "ledgered"} =>
       \A a \in todo : a \notin ledger /\ told[a] = {} /\ grant[a] # "pending"
  /\ pc \in Resolving => \A a \in todo : a \in ledger /\ intent[a] # "submitted"

\* What the platform was told agrees with what it holds, and a call in hand is
\* not one it was told was refused.
ToldInv ==
  /\ \A a \in Approval : told[a] # {} => grant[a] \in Dead
  /\ \A a \in ledger : grant[a] # "pending"
  /\ pc = "calling" => "refused" \notin told[cur]

\* Whom the executor may still submit: the adopted, those left in its snapshot
\* (also when their intent was lost meanwhile) and the one in hand.
Unsent ==
  Adopted \cup (IF pc \in Resolving THEN todo ELSE {})
          \cup (IF pc \in {"calling", "denied"} THEN {cur} ELSE {})

\* None of them has an order yet, except one whose answer is being handled.
UnplacedInv ==
  \A a \in Unsent \ interrupted : ~(cur = a /\ pc \in Window) => orders[a] = 0

\* The inductive invariant: together with TypeOK, every step preserves it.
IInv ==
  /\ ControlInv /\ ToldInv /\ UnplacedInv
  /\ OneApprovalPerProposal /\ LedgerFirst
  /\ \A a \in Approval \ interrupted : orders[a] <= 1
  /\ RefusalIsHonestUnlessInterrupted /\ PendingIsSubmitted

----------------------------------------------------------------------------
(* What the order path promises its owner, as an abstract specification.    *)

Promise == INSTANCE OrderPromise WITH placed <- orders, verdicts <- told,
                                      broken <- interrupted

\* The order path implements the promise: every write, lost report, retry and
\* restart is a step of it or invisible to it.
KeepsPromise == Promise!Spec

=============================================================================
