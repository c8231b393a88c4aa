------------------------------ MODULE Bindings ------------------------------
(***************************************************************************)
(* The bindings that carry an effect out, side by side: a Pi session and its   *)
(* delegations, a DSH session and its team.  They share no state; what they       *)
(* have in common is what they promise of the effects they are given.               *)
(***************************************************************************)

CONSTANTS
  Nil,
  \* of the Pi session
  PiEffects, PiMessages, MaxRequests, MaxPiUpsets,
  \* of its delegations
  ChildDelegations, Plans, Sessions, Parent, ParentGrant, Deadline, ProviderRequests, Micros, PoolPolicy,
  ProviderRows, ChildOutcomes, MaxSteps, MaxNow, MaxChildUpsets,
  \* of the DSH session
  Agents, Tools, MaxTurns, MaxDshUpsets,
  \* of its team
  TeamDelegations, Children, Target, Existing, Threads, Concurrency, Calls, MaxEvents, MaxTeamUpsets

VARIABLES
  piBinding, live, piTurn, piRun, abort, memo, entries, expired, prompts, piTold, piReissued, marred,
  piUpsets,
  now, childrenOpen, childRecords, childEntries, childRun, fate, calls, ledger, owners, usage, childTold, closing,
  childUpsets,
  journal, installed, hooked, agent, entry, op, stray, turn, inbox, given, readmitted, dshTold, shaken, dshUpsets,
  teamOpen, held, teamRecords, teamRun, team, turns, messages, transcript, tools, sent, stopping,
  teamTold, strays, lost, teamUpsets

Pi == INSTANCE PiSession WITH
  None <- Nil, Effects <- PiEffects, Messages <- PiMessages, MaxUpsets <- MaxPiUpsets,
  binding <- piBinding, turn <- piTurn, run <- piRun, log <- entries, told <- piTold,
  reissued <- piReissued, upsets <- piUpsets

Child == INSTANCE PiDelegation WITH
  None <- Nil, Delegations <- ChildDelegations, RequestIds <- ProviderRequests, Policy <- PoolPolicy,
  Rows <- ProviderRows, Outcomes <- ChildOutcomes, MaxUpsets <- MaxChildUpsets,
  open <- childrenOpen, records <- childRecords, log <- childEntries, run <- childRun, told <- childTold,
  upsets <- childUpsets

Dsh == INSTANCE DshSession WITH
  None <- Nil, MaxUpsets <- MaxDshUpsets, prompts <- given, told <- dshTold, upsets <- dshUpsets

Team == INSTANCE DshDelegation WITH
  None <- Nil, Delegations <- TeamDelegations, MaxUpsets <- MaxTeamUpsets,
  open <- teamOpen, records <- teamRecords, run <- teamRun, inbox <- messages, log <- transcript,
  told <- teamTold, upsets <- teamUpsets

BindingsSpec == Pi!Spec /\ Child!Spec /\ Dsh!Spec /\ Team!Spec

-----------------------------------------------------------------------------
(* Properties.                                                                   *)

\* Three of the bindings keep the promise of a host.  A delegation begins with the first effect
\* of its child; a team's receipts may still change, so only what follows is asked of it.  Only
\* a Pi session may forget an effect it called not executed: the others stand by it whoever asks.
PiContract == INSTANCE HostContract WITH Effects <- PiEffects, begun <- prompts, told <- piTold,
  reissued <- piReissued
ChildContract ==
  INSTANCE HostContract WITH
    Effects <- ChildDelegations, begun <- [d \in ChildDelegations |-> calls[d][1]], told <- childTold,
    reissued <- {}
DshContract == INSTANCE HostContract WITH Effects <- Dsh!Effects, begun <- given, told <- dshTold,
  reissued <- {}

ImplementsHostContract == PiContract!Spec /\ ChildContract!Spec /\ DshContract!Spec

\* No effect of a child is executed twice and no delegation reaches its teammate twice, whoever
\* repeats it, however many executions race and whatever is lost: the record comes first.
DispatchedOnce == Child!ChildRunsOnce /\ Team!DispatchedOnce

\* What the bindings answer about work and about stops is of all of it: of turns and children
\* they were attached to from the first event to the last, with every request accounted for.
AnswersAreWhole ==
  /\ Pi!CompletedIsWhole /\ Pi!AcknowledgedIsStopped
  /\ Child!DoneIsWholeAndPaid
  /\ Dsh!CompletedIsCovered /\ Dsh!AckAgrees
  /\ Team!CompletedIsCovered

\* A child keeps to its grant whatever it spends, and to its parent's life.
ChildrenStayBounded == Child!ChildStaysUnderCeiling /\ Child!ClosedIsQuiet

\* The property of module DshSession: what has a fault is paused, and what was lost or
\* disposed of starts nothing before it was resumed.
PausesAreHonored == Dsh!PausesAreHonored
=============================================================================
