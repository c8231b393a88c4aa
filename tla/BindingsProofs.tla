---------------------------- MODULE BindingsProofs ----------------------------
(***************************************************************************)
(* What the bindings promise, proved for every number of effects, delegations,   *)
(* answers, executions, requests and upsets: for each of the four an invariant      *)
(* that holds of every step, and from the four of them the properties of module       *)
(* Bindings, the promise of a host among them.                                         *)
(***************************************************************************)
EXTENDS Bindings, FiniteSetTheorems, SequenceTheorems, TLAPS

-----------------------------------------------------------------------------
(* The binding of a Pi session.  An answer is either of a turn that was watched   *)
(* to its end, or of a prompt that will never be made, and whatever is lost or          *)
(* replaced leaves a dispatch on file that is never repeated.                            *)

(* The state.                                                                  *)

PiBindings == [attached : BOOLEAN, idle : BOOLEAN, fault : BOOLEAN, unloaded : BOOLEAN]

\* The rows and the stop of a run are what its messages made them.
PiMapped == {Pi!MapPiUsage(n, m) : n \in Nat, m \in PiMessages}
PiStops == {Nil} \cup {m.stop : m \in PiMessages}

PiRuns ==
  [effect : PiEffects, started : BOOLEAN, ended : BOOLEAN, settled : BOOLEAN, interrupted : BOOLEAN,
   stop : PiStops, requests : Nat,
   rows : SUBSET PiMapped]

PiAborts == [effect : PiEffects, settled : BOOLEAN]

\* Nil is nothing else, and a user is no effect.
PiApart == Nil \notin PiRuns \cup PiAborts \cup PiEffects /\ "user" \notin PiEffects

PiVerdicts == Pi!Terminal \cup {"not-executed"}

PiTypes ==
  /\ piBinding \in PiBindings /\ live \in BOOLEAN
  /\ piRun \in PiRuns \cup {Nil} /\ abort \in PiAborts \cup {Nil}
  /\ piTurn \in PiEffects \cup {Nil, "user"}
  /\ memo \in [PiEffects -> Pi!Entry] /\ entries \in [PiEffects -> Pi!Entry]
  /\ prompts \in [PiEffects -> {0, 1}]
  /\ piTold \in [PiEffects -> SUBSET (PiVerdicts \cup {"native-ack"})]
  /\ marred \subseteq PiEffects /\ piReissued \subseteq PiEffects

-----------------------------------------------------------------------------
(* The invariant.                                                              *)

\* The verdict that may be out on an effect and is no longer meant.
PiOld(e) == IF e \in piReissued THEN {"not-executed"} ELSE {}

\* A run that has not prompted is of an effect nobody knows anything of, unless it was told
\* that it will not, by this run or before its caller asked again; one that has prompted left
\* its entry, and no verdict on it is out.  Whatever it missed shows.
PiRunFits ==
  piRun # Nil =>
    IF piRun.started
    THEN /\ memo[piRun.effect] = "dispatch" /\ entries[piRun.effect] = "dispatch"
         /\ prompts[piRun.effect] = 1 /\ piTold[piRun.effect] \subseteq {"native-ack"} \cup PiOld(piRun.effect)
         /\ piRun.effect \in marred => piBinding.fault \/ piRun.interrupted
    ELSE /\ memo[piRun.effect] = "none" /\ entries[piRun.effect] = "none"
         /\ prompts[piRun.effect] = 0 /\ piTold[piRun.effect] \subseteq {"not-executed"}
         /\ piRun.interrupted \/ piTold[piRun.effect] = {} \/ piRun.effect \in piReissued

\* What an entry says of its effect is so, and nothing else that still counts was told of it.
PiIsTrue(e, last) ==
  /\ last \in Pi!Terminal \cup {"dispatch"} => prompts[e] = 1
  /\ last = "not-executed" => prompts[e] = 0
  /\ last \in PiVerdicts => piTold[e] \cap PiVerdicts \subseteq {last} \cup PiOld(e)
  /\ last = "completed" => e \notin marred

\* What was prompted is in the file, and an attached binding knows of whatever is there.
PiEntriesFit ==
  \A e \in PiEffects :
    /\ PiIsTrue(e, memo[e]) /\ PiIsTrue(e, entries[e])
    /\ prompts[e] = 1 => entries[e] \notin {"none", "not-executed"}
    /\ {memo[e], entries[e]} \subseteq PiVerdicts => memo[e] = entries[e]
    /\ piBinding.attached /\ memo[e] = "none" => entries[e] = "none"

\* What was told is so, or asked for again.
PiToldFits ==
  \A e \in PiEffects :
    /\ piTold[e] \subseteq {"not-executed"} \/ prompts[e] = 1
    /\ "not-executed" \in piTold[e] => prompts[e] = 0 \/ e \in piReissued
    /\ "completed" \in piTold[e] => e \notin marred
    /\ "native-ack" \in piTold[e] => piTurn # e
    /\ e \in marred => prompts[e] = 1

PiAbortFits == abort # Nil => prompts[abort.effect] = 1

PiInv == PiTypes /\ PiRunFits /\ PiEntriesFit /\ PiToldFits /\ PiAbortFits

-----------------------------------------------------------------------------
(* Steps.                                                                      *)

\* A step of the promise, or none of its own.
PiKept == PiContract!Next \/ UNCHANGED PiContract!vars

\* An answer that is so, and contradicts none before it, is a step of the promise.
LEMMA PiAnswerKeeps ==
  ASSUME PiTypes, NEW e \in PiEffects, NEW v \in PiVerdicts \cup {"native-ack"}, Pi!Answers(e, v),
         UNCHANGED <<prompts, piReissued>>, prompts[e] = IF v = "not-executed" THEN 0 ELSE 1,
         v \in PiVerdicts => piTold[e] \cap PiVerdicts \subseteq {v} \cup PiOld(e)
  PROVE  PiKept
<1>1. v # "unknown" /\ piTold' = [piTold EXCEPT ![e] = @ \cup {v}]
  BY DEF Pi!Answers, PiVerdicts, Pi!Terminal
<1>2. CASE v \in piTold[e]
  BY <1>1, <1>2 DEF PiKept, PiContract!vars, PiTypes
<1>3. CASE v \notin piTold[e]
  <2>1. v \in piTold'[e] \ piTold[e]
    BY <1>1, <1>3 DEF PiTypes
  <2>2. PiContract!Answer(e, v)
    BY <1>1
    DEF PiContract!Answer, PiContract!Verdicts, PiContract!Outcomes, PiContract!Revocable, PiOld, PiVerdicts,
        Pi!Terminal
  <2> QED BY <2>1, <2>2 DEF PiKept, PiContract!Next
<1> QED BY <1>2, <1>3

\* Most steps tell nothing, write nothing and prompt nobody.
PiQuiet ==
  /\ UNCHANGED <<memo, entries, prompts, piTold, piReissued>> /\ marred' \subseteq Pi!Marred
  /\ piTurn' \in {piTurn, Nil, "user"}
  /\ piBinding'.attached => piBinding.attached

\* They leave entries and answers as true as they were.
LEMMA PiQuietFits ==
  ASSUME PiApart, PiInv, PiQuiet
  PROVE  PiEntriesFit' /\ PiToldFits' /\ PiKept
<1>1. \A e \in marred' : e \in marred \/ (piRun # Nil /\ piRun.started /\ e = piRun.effect)
  BY DEF PiQuiet, Pi!Marred, Pi!Started
<1>2. /\ UNCHANGED <<memo, entries, prompts, piTold, piReissued>>
      /\ piBinding'.attached => piBinding.attached
      /\ \A e \in PiEffects : piTurn' = e => piTurn = e
  BY DEF PiQuiet, PiApart
<1>3. \A e \in marred' : e \in marred \/ (memo[e] = "dispatch" /\ entries[e] = "dispatch" /\ prompts[e] = 1
                                          /\ "completed" \notin piTold[e])
  BY <1>1 DEF PiInv, PiRunFits, PiOld
<1>5. PiEntriesFit'
  BY <1>2, <1>3 DEF PiInv, PiEntriesFit, PiIsTrue, PiOld
<1>6. PiToldFits'
  BY <1>2, <1>3 DEF PiInv, PiToldFits
<1>4. PiKept
  BY DEF PiQuiet, PiKept, PiContract!vars
<1> QED BY <1>4, <1>5, <1>6

\* A shutdown interrupts the run, which shows it.
LEMMA PiStopFits ==
  ASSUME PiApart, PiInv, Pi!Stop
  PROVE  PiInv' /\ PiKept
<1>1. PiTypes'
  BY DEF PiInv, PiTypes, PiBindings, PiRuns, PiAborts, Pi!Stop, Pi!Detached, Pi!Interrupted, Pi!Marred, Pi!Started
<1>2. PiRunFits' /\ PiAbortFits'
  BY
  DEF PiInv, PiTypes, PiApart, PiRuns, PiAborts, PiBindings, PiRunFits, PiOld, PiAbortFits, Pi!Stop, Pi!Detached,
      Pi!Interrupted, Pi!Marred, Pi!Started
<1>3. PiQuiet
  BY DEF PiQuiet, PiInv, PiTypes, PiBindings, Pi!Stop, Pi!Detached, Pi!Interrupted, Pi!Marred, Pi!Started
<1> QED BY <1>1, <1>2, <1>3, PiQuietFits DEF PiInv

\* So does an unload.
LEMMA PiUnloadFits ==
  ASSUME PiApart, PiInv, Pi!Unload
  PROVE  PiInv' /\ PiKept
<1>1. PiTypes'
  BY DEF PiInv, PiTypes, PiBindings, PiRuns, PiAborts, Pi!Unload, Pi!Detached, Pi!Interrupted, Pi!Marred, Pi!Started
<1>2. PiRunFits' /\ PiAbortFits'
  BY
  DEF PiInv, PiTypes, PiApart, PiRuns, PiAborts, PiBindings, PiRunFits, PiOld, PiAbortFits, Pi!Unload, Pi!Detached,
      Pi!Interrupted, Pi!Marred, Pi!Started
<1>3. PiQuiet
  BY DEF PiQuiet, PiInv, PiTypes, PiBindings, Pi!Unload, Pi!Detached, Pi!Interrupted, Pi!Marred, Pi!Started
<1> QED BY <1>1, <1>2, <1>3, PiQuietFits DEF PiInv

\* A hook that throws leaves a fault.
LEMMA PiHookFailsFits ==
  ASSUME PiApart, PiInv, Pi!HookFails
  PROVE  PiInv' /\ PiKept
<1>1. PiTypes'
  BY DEF PiInv, PiTypes, PiBindings, PiRuns, PiAborts, Pi!HookFails, Pi!Poisoned, Pi!Marred, Pi!Started
<1>2. PiRunFits' /\ PiAbortFits'
  BY
  DEF PiInv, PiTypes, PiApart, PiRuns, PiAborts, PiBindings, PiRunFits, PiOld, PiAbortFits, Pi!HookFails, Pi!Poisoned,
      Pi!Marred, Pi!Started
<1>3. PiQuiet
  BY DEF PiQuiet, PiInv, PiTypes, PiBindings, Pi!HookFails, Pi!Poisoned, Pi!Marred, Pi!Started
<1> QED BY <1>1, <1>2, <1>3, PiQuietFits DEF PiInv

\* A refusal forgets the run.
LEMMA PiRefusedFits ==
  ASSUME PiApart, PiInv, Pi!PrepareRefused
  PROVE  PiInv' /\ PiKept
<1>1. PiTypes'
  BY DEF PiInv, PiTypes, PiBindings, PiRuns, PiAborts, Pi!PrepareRefused, Pi!Marred
<1>2. PiRunFits' /\ PiAbortFits'
  BY DEF PiInv, PiTypes, PiApart, PiRunFits, PiOld, PiAbortFits, Pi!PrepareRefused
<1>3. PiQuiet
  BY DEF PiQuiet, PiInv, PiTypes, PiBindings, Pi!PrepareRefused, Pi!Marred
<1> QED BY <1>1, <1>2, <1>3, PiQuietFits DEF PiInv

\* A request is counted.
LEMMA PiRequestFits ==
  ASSUME PiApart, PiInv, Pi!BeforeProviderRequest
  PROVE  PiInv' /\ PiKept
<1>1. PiTypes'
  BY DEF PiInv, PiTypes, PiBindings, PiRuns, PiAborts, Pi!BeforeProviderRequest, Pi!Heard, Pi!Started, Pi!Marred
<1>2. PiRunFits' /\ PiAbortFits'
  BY
  DEF PiInv, PiTypes, PiApart, PiRuns, PiAborts, PiBindings, PiRunFits, PiOld, PiAbortFits, Pi!BeforeProviderRequest,
      Pi!Heard, Pi!Started, Pi!Marred
<1>3. PiQuiet
  BY DEF PiQuiet, PiInv, PiTypes, PiBindings, Pi!BeforeProviderRequest, Pi!Heard, Pi!Started, Pi!Marred
<1> QED BY <1>1, <1>2, <1>3, PiQuietFits DEF PiInv

\* An end is noted.
LEMMA PiEndFits ==
  ASSUME PiApart, PiInv, Pi!AgentEnd
  PROVE  PiInv' /\ PiKept
<1>1. PiTypes'
  BY DEF PiInv, PiTypes, PiBindings, PiRuns, PiAborts, Pi!AgentEnd, Pi!Heard, Pi!Started, Pi!Marred
<1>2. PiRunFits' /\ PiAbortFits'
  BY
  DEF PiInv, PiTypes, PiApart, PiRuns, PiAborts, PiBindings, PiRunFits, PiOld, PiAbortFits, Pi!AgentEnd, Pi!Heard,
      Pi!Started, Pi!Marred
<1>3. PiQuiet
  BY DEF PiQuiet, PiInv, PiTypes, PiBindings, Pi!AgentEnd, Pi!Heard, Pi!Started, Pi!Marred
<1> QED BY <1>1, <1>2, <1>3, PiQuietFits DEF PiInv

\* A turn that settles ends.
LEMMA PiSettledFits ==
  ASSUME PiApart, PiInv, Pi!AgentSettled
  PROVE  PiInv' /\ PiKept
<1>1. PiTypes'
  BY DEF PiInv, PiTypes, PiBindings, PiRuns, PiAborts, Pi!AgentSettled, Pi!Heard, Pi!Started, Pi!Marred
<1>2. PiRunFits' /\ PiAbortFits'
  BY
  DEF PiInv, PiTypes, PiApart, PiRuns, PiAborts, PiBindings, PiRunFits, PiOld, PiAbortFits, Pi!AgentSettled, Pi!Heard,
      Pi!Started, Pi!Marred
<1>3. PiQuiet
  BY DEF PiQuiet, PiInv, PiTypes, PiBindings, Pi!AgentSettled, Pi!Heard, Pi!Started, Pi!Marred
<1> QED BY <1>1, <1>2, <1>3, PiQuietFits DEF PiInv

\* A user is no effect.
LEMMA PiUserFits ==
  ASSUME PiApart, PiInv, Pi!UserTurn
  PROVE  PiInv' /\ PiKept
<1>1. PiTypes'
  BY DEF PiInv, PiTypes, PiBindings, PiRuns, PiAborts, Pi!UserTurn, Pi!Started, Pi!Marred
<1>2. PiRunFits' /\ PiAbortFits'
  BY
  DEF PiInv, PiTypes, PiApart, PiRuns, PiAborts, PiBindings, PiRunFits, PiOld, PiAbortFits, Pi!UserTurn, Pi!Started,
      Pi!Marred
<1>3. PiQuiet
  BY DEF PiQuiet, PiInv, PiTypes, PiBindings, Pi!UserTurn, Pi!Started, Pi!Marred
<1> QED BY <1>1, <1>2, <1>3, PiQuietFits DEF PiInv

\* Only what was prompted is aborted.
LEMMA PiCancelStartedFits ==
  ASSUME PiApart, PiInv, NEW e \in PiEffects, Pi!CancelStarted(e)
  PROVE  PiInv' /\ PiKept
<1>1. PiTypes'
  BY DEF PiInv, PiTypes, PiBindings, PiRuns, PiAborts, Pi!CancelStarted, Pi!Started, Pi!Marred
<1>2. PiRunFits' /\ PiAbortFits'
  BY
  DEF PiInv, PiTypes, PiApart, PiRuns, PiAborts, PiBindings, PiRunFits, PiOld, PiAbortFits, Pi!CancelStarted, Pi!Started,
      Pi!Marred
<1>3. PiQuiet
  BY DEF PiQuiet, PiInv, PiTypes, PiBindings, Pi!CancelStarted, Pi!Started, Pi!Marred
<1> QED BY <1>1, <1>2, <1>3, PiQuietFits DEF PiInv

\* An abort that fails leaves a fault.
LEMMA PiAbortFailsFits ==
  ASSUME PiApart, PiInv, Pi!AbortFails
  PROVE  PiInv' /\ PiKept
<1>1. PiTypes'
  BY DEF PiInv, PiTypes, PiBindings, PiRuns, PiAborts, Pi!AbortFails, Pi!Poisoned, Pi!Marred, Pi!Started
<1>2. PiRunFits' /\ PiAbortFits'
  BY
  DEF PiInv, PiTypes, PiApart, PiRuns, PiAborts, PiBindings, PiRunFits, PiOld, PiAbortFits, Pi!AbortFails, Pi!Poisoned,
      Pi!Marred, Pi!Started
<1>3. PiQuiet
  BY DEF PiQuiet, PiInv, PiTypes, PiBindings, Pi!AbortFails, Pi!Poisoned, Pi!Marred, Pi!Started
<1> QED BY <1>1, <1>2, <1>3, PiQuietFits DEF PiInv

\* Another session takes the place of the bound one.
LEMMA PiReplacedFits ==
  ASSUME PiApart, PiInv, Pi!Replaced
  PROVE  PiInv' /\ PiKept
<1>1. PiTypes'
  BY DEF PiInv, PiTypes, PiBindings, PiRuns, PiAborts, Pi!Replaced, Pi!Marred
<1>2. PiRunFits' /\ PiAbortFits'
  BY DEF PiInv, PiRunFits, PiOld, PiAbortFits, Pi!Replaced
<1>3. PiQuiet
  BY DEF PiQuiet, PiInv, PiTypes, PiBindings, Pi!Replaced, Pi!Marred
<1> QED BY <1>1, <1>2, <1>3, PiQuietFits DEF PiInv

\* The bound one comes back.
LEMMA PiReturnedFits ==
  ASSUME PiApart, PiInv, Pi!Returned
  PROVE  PiInv' /\ PiKept
<1>1. PiTypes'
  BY DEF PiInv, PiTypes, PiBindings, PiRuns, PiAborts, Pi!Returned, Pi!Marred
<1>2. PiRunFits' /\ PiAbortFits'
  BY DEF PiInv, PiRunFits, PiOld, PiAbortFits, Pi!Returned
<1>3. PiQuiet
  BY DEF PiQuiet, PiInv, PiTypes, PiBindings, Pi!Returned, Pi!Marred
<1> QED BY <1>1, <1>2, <1>3, PiQuietFits DEF PiInv

\* Time passes.
LEMMA PiDeadlineFits ==
  ASSUME PiApart, PiInv, NEW e \in PiEffects, Pi!DeadlinePasses(e)
  PROVE  PiInv' /\ PiKept
<1>1. PiTypes'
  BY DEF PiInv, PiTypes, PiBindings, PiRuns, PiAborts, Pi!DeadlinePasses, Pi!Marred
<1>2. PiRunFits' /\ PiAbortFits'
  BY DEF PiInv, PiRunFits, PiOld, PiAbortFits, Pi!DeadlinePasses
<1>3. PiQuiet
  BY DEF PiQuiet, PiInv, PiTypes, PiBindings, Pi!DeadlinePasses, Pi!Marred
<1> QED BY <1>1, <1>2, <1>3, PiQuietFits DEF PiInv

\* A row that conflicts leaves a fault.
LEMMA PiMessageFits ==
  ASSUME PiApart, PiInv, NEW m \in PiMessages, Pi!MessageEnd(m)
  PROVE  PiInv' /\ PiKept
<1> DEFINE row == Pi!MapPiUsage(piRun.requests, m)
<1>1. piRun \in PiRuns /\ piRun.started /\ piRun # Nil
  BY DEF PiInv, PiTypes, Pi!MessageEnd, Pi!Heard, Pi!Started
<1>2. row \in PiMapped /\ m.stop \in PiStops
  BY <1>1 DEF PiRuns, PiMapped, PiStops
<1>3. /\ UNCHANGED <<live, piTurn, abort, memo, entries, expired, prompts, piTold, piReissued, piUpsets>>
      /\ \/ piRun' = [piRun EXCEPT !.stop = m.stop] /\ UNCHANGED <<piBinding, marred>>
         \/ piRun' = [piRun EXCEPT !.stop = m.stop] /\ piBinding' = Pi!Poisoned /\ marred' = Pi!Marred
         \/ piRun' = [[piRun EXCEPT !.stop = m.stop] EXCEPT !.rows = @ \cup {row}] /\ UNCHANGED <<piBinding, marred>>
  BY DEF Pi!MessageEnd
<1> HIDE DEF row
<1>4. /\ piRun' \in PiRuns /\ piRun'.started = piRun.started /\ piRun'.effect = piRun.effect
      /\ piRun'.interrupted = piRun.interrupted
  <2>1. CASE piRun' = [piRun EXCEPT !.stop = m.stop]
    BY <1>1, <1>2, <2>1 DEF PiRuns
  <2>2. CASE piRun' = [[piRun EXCEPT !.stop = m.stop] EXCEPT !.rows = @ \cup {row}]
    <3>1. PICK rs \in SUBSET PiMapped : rs = piRun.rows \cup {row}
      BY <1>1, <1>2 DEF PiRuns
    <3>2. piRun' = [[piRun EXCEPT !.stop = m.stop] EXCEPT !.rows = rs]
      BY <1>1, <2>2, <3>1 DEF PiRuns
    <3> QED BY <1>1, <1>2, <3>2 DEF PiRuns
  <2> QED BY <1>3, <2>1, <2>2
<1>5. PiTypes'
  BY <1>1, <1>3, <1>4 DEF PiInv, PiTypes, PiBindings, PiRuns, Pi!Poisoned, Pi!Marred, Pi!Started
<1>6. PiRunFits' /\ PiAbortFits'
  BY <1>1, <1>3, <1>4 DEF PiInv, PiTypes, PiBindings, PiRunFits, PiOld, PiAbortFits, Pi!Poisoned, Pi!Marred, Pi!Started
<1>7. PiQuiet
  BY <1>3 DEF PiQuiet, PiInv, PiTypes, PiBindings, Pi!Poisoned, Pi!Marred
<1> QED BY <1>5, <1>6, <1>7, PiQuietFits DEF PiInv

\* What the file says comes to be known; a run keeps what is known of its effect.
LEMMA PiStartFits ==
  ASSUME PiApart, PiInv, Pi!SessionStart
  PROVE  PiInv' /\ PiKept
<1>1. CASE piBinding' = Pi!Poisoned /\ UNCHANGED memo
  <2>1. PiTypes'
    BY <1>1 DEF PiInv, PiTypes, PiBindings, Pi!SessionStart, Pi!Poisoned
  <2>2. PiRunFits' /\ PiAbortFits'
    BY <1>1 DEF PiInv, PiTypes, PiBindings, PiRunFits, PiOld, PiAbortFits, Pi!SessionStart, Pi!Poisoned
  <2>3. PiQuiet
    BY <1>1 DEF PiQuiet, PiInv, PiTypes, PiBindings, Pi!SessionStart, Pi!Poisoned, Pi!Marred
  <2> QED BY <2>1, <2>2, <2>3, PiQuietFits DEF PiInv
<1>2. CASE /\ piBinding' = [piBinding EXCEPT !.attached = TRUE, !.idle = piTurn = Nil]
           /\ memo' = [e \in PiEffects |-> IF entries[e] = "none" THEN memo[e] ELSE entries[e]]
  <2>1. PiTypes'
    BY <1>2 DEF PiInv, PiTypes, PiBindings, Pi!SessionStart
  <2>2. /\ \A e \in PiEffects : memo'[e] = IF entries[e] = "none" THEN memo[e] ELSE entries[e]
        /\ UNCHANGED <<live, piTurn, piRun, abort, entries, prompts, piTold, piReissued, marred>>
        /\ piBinding'.fault = piBinding.fault
    BY <1>2 DEF Pi!SessionStart, PiInv, PiTypes, PiBindings
  <2>3. PiRunFits' /\ PiAbortFits'
    BY <2>2 DEF PiInv, PiTypes, PiRuns, PiRunFits, PiOld, PiAbortFits
  <2>4. PiEntriesFit' /\ PiToldFits'
    BY <2>2 DEF PiInv, PiTypes, PiEntriesFit, PiIsTrue, PiOld, PiToldFits
  <2>5. PiKept
    BY <2>2 DEF PiKept, PiContract!vars
  <2> QED BY <2>1, <2>3, <2>4, <2>5 DEF PiInv
<1> QED BY <1>1, <1>2 DEF Pi!SessionStart

\* An invocation that fails is forgotten; what it may have prompted is in the file.
LEMMA PiInvokeFailsFits ==
  ASSUME PiApart, PiInv, Pi!InvokeFails
  PROVE  PiInv' /\ PiKept
<1>1. PiTypes'
  BY DEF PiInv, PiTypes, PiBindings, PiRuns, Pi!Entry, Pi!Status, Pi!InvokeFails, Pi!Poisoned, Pi!Marred, Pi!Started
<1>2. PiRunFits' /\ PiAbortFits'
  BY DEF PiInv, PiTypes, PiRunFits, PiOld, PiAbortFits, Pi!InvokeFails
<1>3. PiEntriesFit'
  BY
  DEF PiInv, PiTypes, PiBindings, PiRuns, PiVerdicts, Pi!Terminal, PiRunFits, PiOld, PiEntriesFit, PiIsTrue,
      Pi!InvokeFails, Pi!Poisoned, Pi!Marred, Pi!Started
<1>4. PiToldFits'
  BY DEF PiInv, PiTypes, PiRuns, PiVerdicts, PiRunFits, PiOld, PiToldFits, Pi!InvokeFails, Pi!Marred, Pi!Started
<1>5. PiKept
  BY DEF PiKept, PiContract!vars, Pi!InvokeFails
<1> QED BY <1>1, <1>2, <1>3, <1>4, <1>5 DEF PiInv

\* A crash forgets all but the file.
LEMMA PiCrashFits ==
  ASSUME PiApart, PiInv, Pi!Crash
  PROVE  PiInv' /\ PiKept
<1>1. PiTypes'
  BY DEF PiInv, PiTypes, PiBindings, PiRuns, Pi!Entry, Pi!Crash, Pi!Marred, Pi!Started
<1>2. PiRunFits' /\ PiAbortFits'
  BY DEF PiRunFits, PiOld, PiAbortFits, Pi!Crash
<1>3. PiEntriesFit'
  BY DEF PiInv, PiTypes, PiVerdicts, Pi!Terminal, PiRunFits, PiOld, PiEntriesFit, PiIsTrue, Pi!Crash, Pi!Marred, Pi!Started
<1>4. PiToldFits'
  BY DEF PiInv, PiTypes, PiApart, PiVerdicts, PiRunFits, PiOld, PiToldFits, Pi!Crash, Pi!Marred, Pi!Started
<1>5. PiKept
  BY DEF PiKept, PiContract!vars, Pi!Crash
<1> QED BY <1>1, <1>2, <1>3, <1>4, <1>5 DEF PiInv

\* The prompt is the first of its effect, and comes with its entry.
LEMMA PiPromptFits ==
  ASSUME PiApart, PiInv, Pi!Prompt
  PROVE  PiInv' /\ PiKept
<1>1. /\ piRun \in PiRuns /\ piRun # Nil /\ piRun.effect \in PiEffects /\ piRun' \in PiRuns /\ piRun' # Nil
      /\ piRun'.effect = piRun.effect /\ piRun'.started
  BY DEF PiInv, PiTypes, PiRuns, PiApart, Pi!Prompt
<1>2. /\ prompts[piRun.effect] = 0 /\ piTold[piRun.effect] \subseteq {"not-executed"} /\ piRun.effect \notin marred
      /\ piTold[piRun.effect] = {} \/ piRun.effect \in piReissued
  BY <1>1 DEF PiInv, PiTypes, PiRunFits, PiOld, PiToldFits, Pi!Prompt
<1>3. PiTypes'
  <2>1. prompts' = [prompts EXCEPT ![piRun.effect] = 1]
    BY <1>2 DEF Pi!Prompt
  <2>2. prompts' \in [PiEffects -> {0, 1}]
    BY <1>1, <2>1 DEF PiInv, PiTypes
  <2>3. piBinding' \in PiBindings
    BY DEF PiInv, PiTypes, PiBindings, Pi!Prompt
  <2> QED BY <1>1, <2>2, <2>3 DEF PiInv, PiTypes, Pi!Entry, Pi!Prompt
<1>4. PiRunFits' /\ PiAbortFits'
  BY <1>1, <1>2 DEF PiInv, PiTypes, PiAborts, PiRunFits, PiOld, PiAbortFits, Pi!Prompt
<1>5. PiEntriesFit'
  BY <1>1, <1>2 DEF PiInv, PiTypes, PiBindings, PiVerdicts, Pi!Terminal, PiEntriesFit, PiIsTrue, PiOld, Pi!Prompt
<1>6. PiToldFits'
  BY <1>1, <1>2 DEF PiInv, PiTypes, PiToldFits, Pi!Prompt
<1>7. PiKept
  <2>1. PiContract!Begin(piRun.effect)
    BY <1>1, <1>2 DEF PiContract!Begin, Pi!Prompt, PiInv, PiTypes
  <2> QED BY <1>1, <2>1 DEF PiKept, PiContract!Next
<1> QED BY <1>3, <1>4, <1>5, <1>6, <1>7 DEF PiInv

\* To ask again for what was called not executed changes what that answer is worth, no more.
LEMMA PiReissueFits ==
  ASSUME PiInv, NEW e \in PiEffects,
         piReissued' = IF "not-executed" \in piTold[e] THEN piReissued \cup {e} ELSE piReissued,
         UNCHANGED <<piBinding, piTurn, memo, entries, prompts, piTold, marred>>
  PROVE  PiEntriesFit' /\ PiToldFits' /\ PiKept
<1>1. \A f \in PiEffects : f \in piReissued => f \in piReissued'
  OBVIOUS
<1>2. PiEntriesFit'
  BY <1>1 DEF PiInv, PiEntriesFit, PiIsTrue, PiOld
<1>3. PiToldFits'
  BY <1>1 DEF PiInv, PiToldFits
<1>4. PiKept
  BY DEF PiKept, PiContract!vars, PiContract!Next, PiContract!Reissue
<1> QED BY <1>2, <1>3, <1>4

\* A request begins a run of an effect of which nothing is on file, or is answered by its entry.
LEMMA PiExecuteFits ==
  ASSUME PiApart, PiInv, NEW e \in PiEffects, Pi!Execute(e)
  PROVE  PiInv' /\ PiKept
<1>1. /\ piBinding.attached /\ (piRun # Nil => piRun.effect # e)
      /\ UNCHANGED <<piBinding, live, piTurn, abort, memo, entries, prompts, marred>>
      /\ piReissued' = IF "not-executed" \in piTold[e] THEN piReissued \cup {e} ELSE piReissued
  BY DEF Pi!Execute, Pi!Gate
<1>5. piReissued' \subseteq PiEffects /\ \A f \in PiEffects : f # e => (f \in piReissued' <=> f \in piReissued)
  BY <1>1 DEF PiInv, PiTypes
<1>2. CASE memo[e] = "none"
  <2>1. piRun' = [Pi!NoRun EXCEPT !.effect = e] /\ UNCHANGED piTold /\ piRun = Nil
    BY <1>2 DEF Pi!Execute, Pi!IsIdle
  <2>2. piRun' \in PiRuns /\ piRun'.effect = e /\ ~piRun'.started
    BY <2>1 DEF Pi!NoRun, PiRuns, PiStops
  <2>3. entries[e] = "none" /\ prompts[e] = 0 /\ piTold[e] \subseteq {"not-executed"}
    BY <1>1, <1>2 DEF PiInv, PiTypes, PiEntriesFit, PiToldFits
  <2>7. piTold[e] = {} \/ e \in piReissued'
    BY <1>1, <2>3
  <2>4. PiTypes'
    BY <1>1, <1>5, <2>1, <2>2 DEF PiInv, PiTypes
  <2>5. PiRunFits' /\ PiAbortFits'
    BY <1>1, <1>2, <2>1, <2>2, <2>3, <2>7 DEF PiInv, PiRunFits, PiAbortFits
  <2>6. PiEntriesFit' /\ PiToldFits' /\ PiKept
    BY <1>1, <2>1, PiReissueFits
  <2> QED BY <2>4, <2>5, <2>6 DEF PiInv
<1>3. CASE memo[e] \in {"dispatch", "unknown"}
  <2>1. UNCHANGED piRun /\ piTold' = piTold
    BY <1>3 DEF Pi!Execute, Pi!Answers, PiInv, PiTypes
  <2>2. PiTypes' /\ PiAbortFits'
    BY <1>1, <1>5, <2>1 DEF PiInv, PiTypes, PiAbortFits
  <2>3. PiRunFits'
    BY <1>1, <1>5, <2>1 DEF PiInv, PiTypes, PiRuns, PiRunFits, PiOld
  <2>4. PiEntriesFit' /\ PiToldFits' /\ PiKept
    BY <1>1, <2>1, PiReissueFits
  <2> QED BY <2>2, <2>3, <2>4 DEF PiInv
<1>4. CASE memo[e] \in PiVerdicts
  <2>1. PICK v \in PiVerdicts : v = memo[e]
    BY <1>4
  <2>2. UNCHANGED piRun /\ Pi!Answers(e, v)
    BY <2>1 DEF Pi!Execute, PiVerdicts, Pi!Terminal
  <2>3. piTold' = [piTold EXCEPT ![e] = @ \cup {v}]
    BY <2>2 DEF Pi!Answers, PiVerdicts, Pi!Terminal
  <2>4. /\ prompts[e] = IF v = "not-executed" THEN 0 ELSE 1
        /\ v = "completed" => e \notin marred
        /\ piTold[e] \cap PiVerdicts \subseteq {v} \cup PiOld(e)
    BY <2>1 DEF PiInv, PiEntriesFit, PiIsTrue, PiVerdicts, Pi!Terminal
  <2>5. PiTypes' /\ PiAbortFits'
    BY <1>1, <1>5, <2>2, <2>3 DEF PiInv, PiTypes, PiAbortFits
  <2>6. PiRunFits'
    BY <1>1, <1>5, <2>2, <2>3 DEF PiInv, PiTypes, PiRuns, PiRunFits, PiOld
  <2>7. CASE v \in piTold[e]
    <3>1. piTold' = piTold
      BY <2>3, <2>7 DEF PiInv, PiTypes
    <3>2. PiEntriesFit' /\ PiToldFits' /\ PiKept
      BY <1>1, <3>1, PiReissueFits
    <3> QED BY <2>5, <2>6, <3>2 DEF PiInv
  <2>8. CASE v \notin piTold[e]
    <3>1. UNCHANGED piReissued
      BY <1>1, <2>4, <2>8 DEF PiOld, PiVerdicts
    <3>2. PiEntriesFit'
      BY <1>1, <2>1, <2>3, <3>1 DEF PiInv, PiTypes, PiEntriesFit, PiIsTrue, PiOld
    <3>3. PiToldFits'
      BY <1>1, <2>3, <2>4, <3>1 DEF PiInv, PiTypes, PiToldFits, PiVerdicts, Pi!Terminal
    <3>4. PiKept
      BY <1>1, <2>2, <2>4, <3>1, PiAnswerKeeps DEF PiInv
    <3> QED BY <2>5, <2>6, <3>2, <3>3, <3>4 DEF PiInv
  <2> QED BY <2>7, <2>8
<1> QED BY <1>2, <1>3, <1>4 DEF PiInv, PiTypes, Pi!Entry, Pi!Status, PiVerdicts

\* A run told that it will not prompt leaves that entry.
LEMMA PiNeverFits ==
  ASSUME PiApart, PiInv, Pi!NeverPrompted
  PROVE  PiInv' /\ PiKept
<1>1. PICK e \in PiEffects : e = piRun.effect
  BY DEF PiInv, PiTypes, PiRuns, Pi!NeverPrompted
<1>2. /\ memo' = [memo EXCEPT ![e] = "not-executed"] /\ entries' = [entries EXCEPT ![e] = "not-executed"]
      /\ Pi!Answers(e, "not-executed") /\ piTold' = [piTold EXCEPT ![e] = @ \cup {"not-executed"}] /\ piRun' = Nil
      /\ UNCHANGED <<piBinding, live, piTurn, abort, prompts, piReissued, marred>>
  BY <1>1 DEF Pi!NeverPrompted, Pi!Answers
<1>3. prompts[e] = 0 /\ piTold[e] \subseteq {"not-executed"}
  BY <1>1 DEF PiInv, PiRunFits, PiOld, Pi!NeverPrompted
<1>4. PiTypes' /\ PiRunFits' /\ PiAbortFits'
  BY <1>2 DEF PiInv, PiTypes, PiRunFits, PiOld, PiAbortFits, Pi!Entry, Pi!Status, PiVerdicts
<1>5. PiEntriesFit'
  BY <1>2, <1>3 DEF PiInv, PiTypes, PiEntriesFit, PiIsTrue, PiOld, PiVerdicts, Pi!Terminal
<1>6. PiToldFits'
  BY <1>2, <1>3 DEF PiInv, PiTypes, PiToldFits
<1>7. PiKept
  BY <1>2, <1>3, PiAnswerKeeps DEF PiInv, PiVerdicts
<1> QED BY <1>4, <1>5, <1>6, <1>7 DEF PiInv

\* The answer to a run that has prompted is the first verdict on its effect.
LEMMA PiFinishFits ==
  ASSUME PiApart, PiInv, Pi!FinishInvocation
  PROVE  PiInv' /\ PiKept
<1>1. PICK e \in PiEffects, o \in Pi!Terminal \cup {"unknown"} : e = piRun.effect /\ o = Pi!Outcome
  BY DEF PiInv, PiTypes, PiRuns, Pi!FinishInvocation, Pi!Started, Pi!Outcome, Pi!Terminal
<1>2. /\ memo' = [memo EXCEPT ![e] = o] /\ entries' \in {entries, [entries EXCEPT ![e] = o]}
      /\ Pi!Answers(e, o) /\ piTold' = [piTold EXCEPT ![e] = @ \cup ({o} \ {"unknown"})] /\ piRun' = Nil
      /\ UNCHANGED <<piBinding, live, piTurn, abort, prompts, piReissued, marred>>
  BY <1>1 DEF Pi!FinishInvocation, Pi!Answers, Pi!Persisted
<1>3. prompts[e] = 1 /\ piTold[e] \subseteq {"native-ack"} \cup PiOld(e) /\ entries[e] = "dispatch"
  BY <1>1 DEF PiInv, PiRunFits, PiOld, Pi!FinishInvocation, Pi!Started
<1>4. o = "completed" => e \notin marred
  BY <1>1 DEF PiInv, PiRunFits, PiOld, Pi!FinishInvocation, Pi!Started, Pi!Outcome
<1>5. PiTypes' /\ PiRunFits' /\ PiAbortFits'
  BY <1>2 DEF PiInv, PiTypes, PiRunFits, PiOld, PiAbortFits, Pi!Entry, Pi!Status, PiVerdicts, Pi!Terminal
<1>6. PiEntriesFit'
  BY <1>2, <1>3, <1>4 DEF PiInv, PiTypes, PiEntriesFit, PiIsTrue, PiOld, PiVerdicts, Pi!Terminal
<1>7. PiToldFits'
  <2>1. piTurn = Nil
    BY DEF Pi!FinishInvocation
  <2> QED BY <1>2, <1>3, <1>4, <2>1 DEF PiInv, PiTypes, PiToldFits, Pi!Terminal
<1>8. PiKept
  <2>1. CASE o = "unknown"
    BY <1>2, <2>1 DEF PiKept, PiContract!vars, PiInv, PiTypes
  <2>2. CASE o \in Pi!Terminal
    BY <1>2, <1>3, <2>2, PiAnswerKeeps DEF PiInv, PiVerdicts, Pi!Terminal
  <2> QED BY <2>1, <2>2
<1> QED BY <1>5, <1>6, <1>7, <1>8 DEF PiInv

\* Before the prompt a cancellation is certain.
LEMMA PiCancelFits ==
  ASSUME PiApart, PiInv, NEW e \in PiEffects, Pi!CancelPrepared(e)
  PROVE  PiInv' /\ PiKept
<1>1. /\ piRun \in PiRuns /\ piRun # Nil /\ piRun.effect = e /\ ~piRun.started /\ piRun' = [piRun EXCEPT !.interrupted = TRUE]
      /\ Pi!Answers(e, "not-executed") /\ piTold' = [piTold EXCEPT ![e] = @ \cup {"not-executed"}]
      /\ UNCHANGED <<piBinding, live, piTurn, abort, memo, entries, prompts, piReissued, marred>>
  BY DEF Pi!CancelPrepared, Pi!Interrupted, Pi!Answers, PiInv, PiTypes
<1>2. piRun' \in PiRuns /\ piRun' # Nil /\ piRun'.effect = e /\ ~piRun'.started /\ piRun'.interrupted
  BY <1>1 DEF PiRuns, PiApart
<1>3. /\ prompts[e] = 0 /\ piTold[e] \subseteq {"not-executed"} /\ memo[e] = "none" /\ entries[e] = "none"
  BY <1>1 DEF PiInv, PiRunFits, PiOld
<1>4. PiTypes'
  BY <1>1, <1>2 DEF PiInv, PiTypes, PiVerdicts
<1>5. PiRunFits' /\ PiAbortFits'
  BY <1>1, <1>2, <1>3 DEF PiInv, PiTypes, PiRunFits, PiOld, PiAbortFits
<1>6. PiEntriesFit'
  BY <1>1, <1>3 DEF PiInv, PiTypes, PiEntriesFit, PiIsTrue, PiOld, PiVerdicts, Pi!Terminal
<1>7. PiToldFits'
  BY <1>1, <1>3 DEF PiInv, PiTypes, PiToldFits
<1>8. PiKept
  BY <1>1, <1>3, PiAnswerKeeps DEF PiInv, PiVerdicts
<1> QED BY <1>4, <1>5, <1>6, <1>7, <1>8 DEF PiInv

\* A stop is acknowledged of what was prompted and is over.
LEMMA PiAbortReturnsFits ==
  ASSUME PiApart, PiInv, Pi!AbortReturns
  PROVE  PiInv' /\ PiKept
<1>1. CASE ~Pi!Acknowledged
  <2>1. abort' = Nil /\ UNCHANGED <<piBinding, live, piTurn, piRun, memo, entries, prompts, piTold, piReissued, marred>>
    BY <1>1 DEF Pi!AbortReturns
  <2>2. PiTypes' /\ PiRunFits' /\ PiAbortFits'
    BY <2>1 DEF PiInv, PiTypes, PiRunFits, PiOld, PiAbortFits
  <2>3. PiQuiet
    BY <2>1 DEF PiQuiet, Pi!Marred
  <2> QED BY <2>2, <2>3, PiQuietFits DEF PiInv
<1>2. CASE Pi!Acknowledged
  <2>1. PICK e \in PiEffects : e = abort.effect /\ prompts[e] = 1
    BY DEF Pi!AbortReturns, PiInv, PiTypes, PiAborts, PiAbortFits
  <2>2. /\ abort' = Nil /\ piTurn = Nil /\ Pi!Answers(e, "native-ack")
        /\ piTold' = [piTold EXCEPT ![e] = @ \cup {"native-ack"}]
        /\ UNCHANGED <<piBinding, live, piTurn, piRun, memo, entries, prompts, piReissued, marred>>
    BY <1>2, <2>1 DEF Pi!AbortReturns, Pi!Acknowledged, Pi!Answers
  <2>3. PiTypes' /\ PiAbortFits'
    BY <2>2 DEF PiInv, PiTypes, PiAbortFits
  <2>4. PiRunFits'
    BY <2>1, <2>2 DEF PiInv, PiTypes, PiRunFits, PiOld
  <2>5. PiEntriesFit'
    BY <2>1, <2>2 DEF PiInv, PiTypes, PiEntriesFit, PiIsTrue, PiOld, PiVerdicts, Pi!Terminal
  <2>6. PiToldFits'
    BY <2>1, <2>2 DEF PiInv, PiTypes, PiToldFits, PiApart
  <2>7. PiKept
    BY <2>1, <2>2, PiAnswerKeeps DEF PiInv, PiVerdicts, Pi!Terminal
  <2> QED BY <2>3, <2>4, <2>5, <2>6, <2>7 DEF PiInv
<1> QED BY <1>1, <1>2

\* A verdict that is known is repeated.
LEMMA PiReconcileFits ==
  ASSUME PiApart, PiInv, NEW e \in PiEffects, Pi!Reconcile(e)
  PROVE  PiInv' /\ PiKept
<1>1. PICK v \in PiVerdicts : v = memo[e]
  BY DEF Pi!Reconcile, PiVerdicts
<1>2. /\ Pi!Answers(e, v) /\ piTold' = [piTold EXCEPT ![e] = @ \cup {v}]
      /\ UNCHANGED <<piBinding, live, piTurn, piRun, abort, memo, entries, prompts, piReissued, marred>>
  BY <1>1 DEF Pi!Reconcile, Pi!Answers, PiVerdicts, Pi!Terminal
<1>3. /\ prompts[e] = IF v = "not-executed" THEN 0 ELSE 1
      /\ piTold[e] \cap PiVerdicts \subseteq {v} \cup PiOld(e)
      /\ v = "completed" => e \notin marred
  BY <1>1 DEF PiInv, PiEntriesFit, PiIsTrue, PiOld, PiVerdicts, Pi!Terminal
<1>4. piRun # Nil => piRun.effect # e
  BY <1>1 DEF PiInv, PiRunFits, PiOld, PiVerdicts, Pi!Terminal
<1>5. PiTypes' /\ PiAbortFits'
  BY <1>2 DEF PiInv, PiTypes, PiAbortFits
<1>6. PiRunFits'
  BY <1>2, <1>4 DEF PiInv, PiTypes, PiRuns, PiRunFits, PiOld
<1>7. PiEntriesFit'
  BY <1>1, <1>2 DEF PiInv, PiTypes, PiEntriesFit, PiIsTrue, PiOld
<1>8. PiToldFits'
  BY <1>2, <1>3 DEF PiInv, PiTypes, PiToldFits, PiVerdicts, Pi!Terminal
<1>9. PiKept
  BY <1>2, <1>3, PiAnswerKeeps DEF PiInv
<1> QED BY <1>5, <1>6, <1>7, <1>8, <1>9 DEF PiInv

-----------------------------------------------------------------------------
(* The theorems.                                                               *)

\* Every step keeps the invariant and the promise.
LEMMA PiNextFits == PiApart /\ PiInv /\ [Pi!Next]_(Pi!vars) => PiInv' /\ PiKept
<1> SUFFICES ASSUME PiApart, PiInv, [Pi!Next]_(Pi!vars) PROVE PiInv' /\ PiKept
  OBVIOUS
<1>1. CASE UNCHANGED Pi!vars
  <2>1. PiTypes' /\ PiRunFits' /\ PiAbortFits'
    BY <1>1 DEF Pi!vars, PiInv, PiTypes, PiRunFits, PiOld, PiAbortFits
  <2>2. PiQuiet
    BY <1>1 DEF Pi!vars, PiQuiet, Pi!Marred
  <2> QED BY <2>1, <2>2, PiQuietFits DEF PiInv
<1>2. CASE Pi!Next
  BY <1>2, PiStartFits, PiStopFits, PiUnloadFits, PiHookFailsFits, PiExecuteFits, PiCancelFits, PiCancelStartedFits,
     PiReconcileFits,
     PiDeadlineFits, PiRefusedFits, PiInvokeFailsFits, PiNeverFits, PiPromptFits, PiFinishFits, PiRequestFits, PiMessageFits, PiEndFits,
     PiSettledFits, PiUserFits, PiAbortReturnsFits, PiAbortFailsFits, PiReplacedFits, PiReturnedFits, PiCrashFits DEF Pi!Next
<1> QED BY <1>1, <1>2

\* A binding begins with nothing known, prompted or told.
LEMMA PiInitFits == PiApart /\ Pi!Init => PiInv /\ PiContract!Init
<1> SUFFICES ASSUME PiApart, Pi!Init PROVE PiInv /\ PiContract!Init
  OBVIOUS
<1>1. PiTypes
  BY DEF Pi!Init, PiTypes, PiBindings, Pi!Entry
<1>2. PiRunFits /\ PiAbortFits /\ PiToldFits
  BY DEF Pi!Init, PiRunFits, PiOld, PiAbortFits, PiToldFits
<1>3. PiEntriesFit
  BY DEF Pi!Init, PiEntriesFit, PiIsTrue, PiOld, PiVerdicts, Pi!Terminal
<1>4. PiContract!Init
  BY DEF Pi!Init, PiContract!Init
<1> QED BY <1>1, <1>2, <1>3, <1>4 DEF PiInv

\* The invariant holds in every state.
LEMMA PiFits == PiApart /\ Pi!Spec => [](PiApart /\ PiInv)
<1>1. PiApart => PiApart'
  BY DEF PiApart, PiRuns, PiAborts, PiStops, PiMapped
<1> QED BY <1>1, PiInitFits, PiNextFits, PTL DEF Pi!Spec

\* The binding implements the promise of a host (bindPiSession): whatever is repeated,
\* interrupted, replaced or lost, the native session is prompted at most once for an effect, an
\* effect called not executed is prompted only if its caller asks for it again, and no verdict
\* contradicts an earlier one but that.
THEOREM PiKeepsItsPromise == PiApart /\ Pi!Spec => PiContract!Spec
<1>1. PiApart /\ PiInv /\ [Pi!Next]_(Pi!vars) => [PiContract!Next]_(PiContract!vars)
  BY PiNextFits DEF PiKept
<1> QED BY <1>1, PiInitFits, PiFits, PTL DEF Pi!Spec, PiContract!Spec

\* What is called completed was watched from its prompt to its end (invoke): no shutdown, fault,
\* conflicting row or loss came in between.
THEOREM PiCompletesWhole == PiApart /\ Pi!Spec => []Pi!CompletedIsWhole
<1>1. PiInv => Pi!CompletedIsWhole
  BY DEF PiInv, PiToldFits, Pi!CompletedIsWhole
<1> QED BY <1>1, PiFits, PTL

\* After an acknowledged stop (cancel) no turn of the effect runs, nor will ever.
THEOREM PiStopsForGood == PiApart /\ Pi!Spec => []Pi!AcknowledgedIsStopped
<1>1. PiInv => Pi!AcknowledgedIsStopped
  BY DEF PiInv, PiToldFits, Pi!AcknowledgedIsStopped
<1> QED BY <1>1, PiFits, PTL

-----------------------------------------------------------------------------
(* Delegations of a Pi session.  What is on record is not run again; before the   *)
(* child is there nothing ran, while it works everything before its step is done, and   *)
(* the file is behind the memory only by an outcome nobody was told.                     *)

\* Sets are counted in the instance as they are counted here.
LEMMA ChildCounts == \A S : Child!Cardinality(S) = Cardinality(S)
BY DEF Child!Cardinality, Cardinality

(* The state.                                                                  *)

ChildVerdicts == Child!Terminal \cup {"not-executed"}
ChildRecords ==
  [phase : {"none", "prepared", "created", "dispatched", "receipt"}, plan : Plans \cup {Nil},
   child : Sessions \cup {Nil}, receipt : ChildVerdicts \cup {"unknown", Nil}]
ChildRuns ==
  [at : {"rest", "planning", "creating", "working"}, interrupted : BOOLEAN, dispatched : BOOLEAN, step : Nat]
ChildFates == {"none", "running", "lost"} \cup Child!Terminal

\* A child has an effect at least and a grant in whole requests, Nil is nothing else, and the
\* parent's own requests are no child's.
ChildApart ==
  /\ IsFiniteSet(ProviderRequests) /\ Parent \notin ChildDelegations
  /\ MaxSteps \in Nat \ {0}
  /\ \A p \in Plans : p.effects \in Nat /\ p.effects <= MaxSteps /\ p.request.budget.requests \in Nat
  /\ ChildOutcomes \subseteq Child!Terminal \cup {"lost"}
  /\ Nil \notin ChildVerdicts \cup {"unknown", "AUTHORITY_DENIED", "GRANT_REVOKED", "GRANT_EXPIRED"}

ChildTypes ==
  /\ childrenOpen \in BOOLEAN /\ closing \in {"no", "awaiting", "closed"}
  /\ childRecords \in [ChildDelegations -> ChildRecords] /\ childEntries \in [ChildDelegations -> ChildRecords]
  /\ childRun \in [ChildDelegations -> ChildRuns]
  /\ fate \in [ChildDelegations -> [Child!Steps -> ChildFates]]
  /\ calls \in [ChildDelegations -> [Child!Steps -> {0, 1}]]
  /\ childTold \in [ChildDelegations -> SUBSET ChildVerdicts]

-----------------------------------------------------------------------------
(* The invariant.                                                              *)

ChildUntouched(d) == \A k \in Child!Steps : fate[d][k] = "none"

\* The file is behind the memory only by an outcome that is not known, of a run that is over.
ChildRecordFits(d) ==
  /\ \/ childRecords[d] = childEntries[d]
     \/ /\ childRecords[d] = Child!Receipt(childEntries[d], "unknown") /\ childEntries[d].receipt = Nil
        /\ childEntries[d].phase # "none" /\ childRun[d].at = "rest"
  /\ childEntries[d].phase = "none" => childEntries[d] = Child!NoRecord /\ childTold[d] = {} /\ Child!Owned(owners, d) = {} /\ ChildUntouched(d)
  /\ childEntries[d].phase # "none" => /\ childEntries[d].plan \in Plans /\ childEntries[d].plan.effects >= 1
                                       /\ Child!BudgetWithin(childEntries[d].plan.request.budget, ParentGrant.budget)

\* Before the child is there nothing ran, and while it works everything before the step is done
\* and nothing after it began.
ChildRunFits(d) ==
  /\ childRun[d].at = "rest" => childRun[d] = Child!Idle /\ \A k \in Child!Steps : fate[d][k] # "running"
  /\ childRun[d].at = "planning" => childRun[d] = [Child!Idle EXCEPT !.at = "planning"] /\ childEntries[d].phase = "none"
  /\ childRun[d].at = "creating" =>
       /\ childEntries[d].phase = "prepared" /\ childEntries[d].receipt = Nil /\ childEntries[d].child = Nil /\ ChildUntouched(d)
       /\ ~childRun[d].dispatched
       /\ childTold[d] # {} => childRun[d].interrupted
  /\ childRun[d].at = "working" =>
       /\ childEntries[d].phase = "dispatched" /\ childEntries[d].receipt = Nil /\ childTold[d] = {} /\ childRun[d].dispatched
       /\ childRun[d].step \in 1 .. childEntries[d].plan.effects
       /\ \A k \in Child!Steps : /\ k < childRun[d].step => fate[d][k] = "completed"
                                 /\ k > childRun[d].step => fate[d][k] = "none"
                                 /\ k = childRun[d].step => fate[d][k] # "none"

\* An effect is executed when its fate begins.
ChildCallsFit(d) == \A k \in Child!Steps : calls[d][k] = IF fate[d][k] = "none" THEN 0 ELSE 1

\* Done is what did all of its plan and was paid.
ChildWhole(d) ==
  /\ \A k \in 1 .. childEntries[d].plan.effects : fate[d][k] = "completed"
  /\ Child!Owned(owners, d) \subseteq {u.requestId : u \in {x \in usage : x.complete}}

\* What is told is on file, or was told of a child that was never created.
ChildReceiptFits(d) ==
  /\ childEntries[d].receipt = "completed" => ChildWhole(d)
  /\ childEntries[d].receipt \in Child!Terminal => fate[d][1] # "none"
  /\ childEntries[d].receipt = "not-executed" => ChildUntouched(d)
  /\ childEntries[d].receipt # Nil => childRun[d].at = "rest"
  /\ \A v \in childTold[d] :
       \/ childEntries[d].receipt = v
       \/ v = "not-executed" /\ childEntries[d].receipt \in {Nil, "unknown"} /\ childEntries[d].child = Nil /\ ChildUntouched(d)

\* The requests of a child are within its grant.
ChildCeilingFits(d) ==
  Child!Owned(owners, d) # {} =>
    LET budget == childEntries[d].plan.request.budget
    IN /\ Cardinality(Child!Owned(owners, d)) <= budget.requests
       /\ budget.usd # Nil => Cardinality(Child!Owned(owners, d)) * PoolPolicy.reservePerRequest <= budget.usd

ChildPoolFits == "reservePerRequest" \in DOMAIN ledger /\ ledger.reservePerRequest = PoolPolicy.reservePerRequest

ChildClosingFits == (closing # "no" => ~childrenOpen) /\ (closing = "closed" => Child!Pending = {})

ChildFits(d) == ChildRecordFits(d) /\ ChildRunFits(d) /\ ChildCallsFit(d) /\ ChildReceiptFits(d) /\ ChildCeilingFits(d)
ChildInv == ChildTypes /\ ChildPoolFits /\ ChildClosingFits /\ \A d \in ChildDelegations : ChildFits(d)

-----------------------------------------------------------------------------
(* Steps.                                                                      *)

ChildKept == ChildContract!Next \/ UNCHANGED ChildContract!vars

\* What a delegation is made of stays.
ChildRested(e) ==
  /\ childRecords'[e] = childRecords[e] /\ childEntries'[e] = childEntries[e] /\ childRun'[e] = childRun[e] /\ fate'[e] = fate[e]
  /\ calls'[e] = calls[e] /\ childTold'[e] = childTold[e]

\* It fits as before when nothing of it moves.
LEMMA ChildRestedKeeps ==
  ASSUME NEW e, ChildFits(e), ChildRested(e), UNCHANGED <<owners, usage>>
  PROVE  ChildFits(e)'
<1>1. Child!Owned(owners, e)' = Child!Owned(owners, e)
  BY DEF Child!Owned
<1>2. ChildRecordFits(e)' /\ ChildRunFits(e)'
  BY <1>1 DEF ChildFits, ChildRested, ChildRecordFits, ChildRunFits, ChildUntouched
<1>3. ChildCallsFit(e)' /\ ChildCeilingFits(e)'
  BY <1>1 DEF ChildFits, ChildRested, ChildCallsFit, ChildCeilingFits
<1>4. ChildReceiptFits(e)'
  BY <1>1 DEF ChildFits, ChildRested, ChildReceiptFits, ChildUntouched, ChildWhole
<1> QED BY <1>2, <1>3, <1>4 DEF ChildFits

\* A step of one delegation.
ChildMoves(d) ==
  /\ UNCHANGED <<childrenOpen, closing, ledger, owners, usage>>
  /\ childrenOpen \/ childRun[d].at # "rest" \/ childRun'[d].at = "rest"
  /\ \A e \in ChildDelegations : e # d => ChildRested(e)

\* A step of one delegation that touches no request leaves every other delegation as it was.
LEMMA ChildMoveKeeps ==
  ASSUME ChildInv, NEW d \in ChildDelegations, ChildMoves(d), ChildTypes', ChildFits(d)'
  PROVE  ChildInv'
<1>1. ChildPoolFits'
  BY DEF ChildInv, ChildMoves, ChildPoolFits
<1>2. ChildClosingFits'
  BY DEF ChildInv, ChildMoves, ChildClosingFits, Child!Pending, ChildRested
<1>3. \A e \in ChildDelegations : ChildFits(e)'
  <2> SUFFICES ASSUME NEW e \in ChildDelegations, e # d PROVE ChildFits(e)'
    OBVIOUS
  <2>1. ChildFits(e) /\ ChildRested(e) /\ UNCHANGED <<owners, usage>>
    BY DEF ChildInv, ChildMoves
  <2> QED BY <2>1, ChildRestedKeeps
<1> QED BY <1>1, <1>2, <1>3 DEF ChildInv

\* What is said of an effect is of the kind its execution allows, and nothing else was said.
LEMMA ChildTellsKeeps ==
  ASSUME ChildTypes, NEW d \in ChildDelegations, NEW v \in ChildVerdicts \cup {"unknown"}, Child!Tells(d, v), UNCHANGED calls,
         v # "unknown" => calls[d][1] = (IF v = "not-executed" THEN 0 ELSE 1) /\ childTold[d] \subseteq {v}
  PROVE  /\ ChildKept
         /\ childTold' \in [ChildDelegations -> SUBSET ChildVerdicts]
         /\ childTold'[d] = childTold[d] \cup ({v} \ {"unknown"})
         /\ \A e \in ChildDelegations : e # d => childTold'[e] = childTold[e]
<1> DEFINE begun == [x \in ChildDelegations |-> calls[x][1]]
<1>1. /\ childTold' \in [ChildDelegations -> SUBSET ChildVerdicts]
      /\ childTold'[d] = childTold[d] \cup ({v} \ {"unknown"})
      /\ \A e \in ChildDelegations : e # d => childTold'[e] = childTold[e]
  BY DEF ChildTypes, Child!Tells, ChildVerdicts, Child!Terminal
<1>2. CASE v \in childTold[d] \/ v = "unknown"
  <2>1. childTold[d] \cup ({v} \ {"unknown"}) = childTold[d]
    BY <1>2
  <2>2. childTold' = childTold
    BY <2>1 DEF ChildTypes, Child!Tells
  <2> QED BY <1>1, <2>2 DEF ChildKept, ChildContract!vars
<1>3. CASE v \notin childTold[d] /\ v # "unknown"
  <2>1. v \in childTold'[d] \ childTold[d]
    BY <1>1, <1>3
  <2>2. childTold' = [childTold EXCEPT ![d] = @ \cup {v}]
    BY <1>3 DEF Child!Tells
  <2>3. begun[d] = (IF v = "not-executed" THEN 0 ELSE 1) /\ UNCHANGED begun
    BY <1>3
  <2>4. v \in ChildContract!Verdicts
    BY <1>3 DEF ChildContract!Verdicts, ChildContract!Outcomes, ChildVerdicts, Child!Terminal
  <2>5. childTold[d] \cap ChildContract!Verdicts \subseteq {v}
    BY <1>3
  <2>6. ChildContract!Answer(d, v)
    BY <2>2, <2>3, <2>4, <2>5 DEF ChildContract!Answer, ChildContract!Revocable
  <2> QED BY <1>1, <2>1, <2>6 DEF ChildKept, ChildContract!Next
<1> QED BY <1>1, <1>2, <1>3

\* A step that says nothing and executes nothing is none of the promise.
LEMMA ChildQuietKeeps ==
  ASSUME UNCHANGED <<calls, childTold>>
  PROVE  ChildKept
BY DEF ChildKept, ChildContract!vars

\* A write.
LEMMA ChildSavedIs ==
  ASSUME ChildTypes, NEW d \in ChildDelegations, NEW r \in ChildRecords, Child!Saved(d, r)
  PROVE  /\ childRecords' \in [ChildDelegations -> ChildRecords] /\ childEntries' \in [ChildDelegations -> ChildRecords]
         /\ childRecords'[d] = r /\ childEntries'[d] = r
         /\ \A e \in ChildDelegations : e # d => childRecords'[e] = childRecords[e] /\ childEntries'[e] = childEntries[e]
BY DEF Child!Saved, ChildTypes

\* The end of an invocation.
LEMMA ChildRestsIs ==
  ASSUME ChildTypes, NEW d \in ChildDelegations, Child!Rests(d)
  PROVE  /\ childRun' \in [ChildDelegations -> ChildRuns] /\ childRun'[d] = Child!Idle
         /\ \A e \in ChildDelegations : e # d => childRun'[e] = childRun[e]
BY DEF Child!Rests, ChildTypes, Child!Idle, ChildRuns

\* A receipt is written over its own record and changes neither plan nor child.
LEMMA ChildReceiptIs ==
  ASSUME NEW r \in ChildRecords, NEW v \in ChildVerdicts \cup {"unknown"}
  PROVE  /\ Child!Receipt(r, v) \in ChildRecords
         /\ Child!Receipt(r, v).phase = "receipt" /\ Child!Receipt(r, v).receipt = v
         /\ Child!Receipt(r, v).plan = r.plan /\ Child!Receipt(r, v).child = r.child
BY DEF Child!Receipt, ChildRecords

\* An aggregate that is known is of every effect of the plan, and of every request.
LEMMA ChildAggregateIs ==
  ASSUME NEW d, NEW results, NEW interrupted, NEW v, v = Child!Aggregate(d, results, interrupted)
  PROVE  /\ v \in Child!Terminal \cup {"unknown"}
         /\ v # "unknown" => /\ Cardinality(DOMAIN results) = childRecords[d].plan.effects
                             /\ \A k \in DOMAIN results : results[k] \in Child!Terminal
                             /\ Child!UsageComplete(d)
         /\ v = "completed" => \A k \in DOMAIN results : results[k] = "completed"
BY ChildCounts DEF Child!Aggregate, Child!Terminal

\* The usage of an invocation is complete when each of its requests has its row.
LEMMA ChildCompleteIsPaid ==
  ASSUME NEW d, Child!UsageComplete(d)
  PROVE  Child!Owned(owners, d) \subseteq {u.requestId : u \in {x \in usage : x.complete}}
BY DEF Child!UsageComplete

-----------------------------------------------------------------------------
(* The steps of an invocation.                                                  *)

\* A repeat is given what is on record.
LEMMA ChildRepeatKeeps ==
  ASSUME ChildApart, ChildInv, NEW d \in ChildDelegations, childRecords[d] # Child!NoRecord,
         Child!Tells(d, IF childRecords[d].receipt = Nil THEN "unknown" ELSE childRecords[d].receipt),
         UNCHANGED <<childrenOpen, closing, ledger, owners, usage, childRecords, childEntries, childRun, fate, calls>>
  PROVE  ChildInv' /\ ChildKept
<1> DEFINE v == IF childRecords[d].receipt = Nil THEN "unknown" ELSE childRecords[d].receipt
<1>1. ChildTypes /\ ChildFits(d)
  BY DEF ChildInv
<1>2. Child!Owned(owners, d)' = Child!Owned(owners, d)
  BY DEF Child!Owned
<1>3. v \in ChildVerdicts \cup {"unknown"} /\ Child!Tells(d, v)
  BY <1>1 DEF ChildTypes, ChildRecords
<1>4. v # "unknown" => childEntries[d].receipt = v
  <2>1. childEntries[d] \in ChildRecords
    BY <1>1 DEF ChildTypes
  <2>2. CASE childRecords[d] = childEntries[d]
    BY <2>2
  <2>3. CASE childRecords[d] = Child!Receipt(childEntries[d], "unknown")
    BY <2>1, <2>3, ChildReceiptIs
  <2> QED BY <1>1, <2>2, <2>3 DEF ChildFits, ChildRecordFits
<1>5. v # "unknown" => /\ calls[d][1] = (IF v = "not-executed" THEN 0 ELSE 1)
                       /\ childEntries[d].phase # "none" /\ childTold[d] \subseteq {v}
  <2>1. 1 \in Child!Steps
    BY DEF ChildApart, Child!Steps
  <2>2. childEntries[d].phase = "none" => childEntries[d].receipt = Nil
    BY <1>1 DEF ChildFits, ChildRecordFits, Child!NoRecord
  <2> QED BY <1>1, <1>3, <1>4, <2>1, <2>2
          DEF ChildFits, ChildReceiptFits, ChildCallsFit, ChildUntouched, ChildVerdicts, ChildApart
<1> HIDE DEF v
<1>6. /\ ChildKept /\ childTold' \in [ChildDelegations -> SUBSET ChildVerdicts]
      /\ childTold'[d] = childTold[d] \cup ({v} \ {"unknown"})
      /\ \A e \in ChildDelegations : e # d => childTold'[e] = childTold[e]
  BY <1>1, <1>3, <1>5, ChildTellsKeeps
<1>8. ChildTypes'
  BY <1>1, <1>6 DEF ChildTypes
<1>9. ChildReceiptFits(d)'
  BY <1>1, <1>2, <1>4, <1>6 DEF ChildFits, ChildReceiptFits, ChildUntouched, ChildWhole
<1>10. ChildRecordFits(d)'
  <2>1. childEntries[d].phase = "none" => childTold'[d] = {}
    BY <1>1, <1>5, <1>6 DEF ChildFits, ChildRecordFits
  <2> QED BY <1>1, <1>2, <2>1 DEF ChildFits, ChildRecordFits, ChildUntouched
<1>11. childRun[d].at # "creating" \/ childTold'[d] = childTold[d]
  BY <1>1, <1>4, <1>6 DEF ChildFits, ChildRunFits, ChildApart
<1>12. childRun[d].at # "working" \/ childTold'[d] = childTold[d]
  BY <1>1, <1>4, <1>6 DEF ChildFits, ChildRunFits, ChildApart
<1>13. ChildRunFits(d)' /\ ChildCallsFit(d)' /\ ChildCeilingFits(d)'
  BY <1>1, <1>2, <1>11, <1>12 DEF ChildFits, ChildRunFits, ChildCallsFit, ChildCeilingFits, ChildUntouched
<1>14. ChildMoves(d)
  BY <1>1, <1>6 DEF ChildMoves, ChildRested, ChildFits, ChildRunFits
<1> QED BY <1>6, <1>8, <1>9, <1>10, <1>13, <1>14, ChildMoveKeeps DEF ChildFits

\* execute: what is on record is answered from it, and only what is not is planned.
LEMMA ChildExecuteKeeps ==
  ASSUME ChildApart, ChildInv, NEW d \in ChildDelegations, Child!Execute(d)
  PROVE  ChildInv' /\ ChildKept
<1>1. ChildTypes /\ ChildFits(d) /\ childRun[d].at = "rest" /\ childRun[d] = Child!Idle
  BY DEF ChildInv, ChildFits, Child!Execute, Child!Pending, ChildRunFits
<1>2. UNCHANGED <<childrenOpen, closing, ledger, owners, usage, childRecords, childEntries, fate, calls>>
  BY DEF Child!Execute, Child!pool
<1>3. Child!Owned(owners, d)' = Child!Owned(owners, d)
  BY <1>2 DEF Child!Owned
<1>4. CASE childRecords[d] # Child!NoRecord
  BY <1>2, <1>4, ChildRepeatKeeps DEF Child!Execute
<1>5. CASE childRecords[d] = Child!NoRecord
  <2>1. childrenOpen /\ childRun' = [childRun EXCEPT ![d].at = "planning"] /\ UNCHANGED childTold
    BY <1>5 DEF Child!Execute
  <2>2. childEntries[d].phase = "none"
    <3>1. childEntries[d] \in ChildRecords /\ childRecords[d].phase = "none"
      BY <1>1, <1>5 DEF ChildTypes, Child!NoRecord
    <3>2. childRecords[d] # Child!Receipt(childEntries[d], "unknown")
      BY <3>1, ChildReceiptIs
    <3> QED BY <1>1, <3>1, <3>2 DEF ChildFits, ChildRecordFits
  <2>3. /\ childRun' \in [ChildDelegations -> ChildRuns] /\ childRun'[d] = [Child!Idle EXCEPT !.at = "planning"]
        /\ \A e \in ChildDelegations : e # d => childRun'[e] = childRun[e]
    BY <1>1, <2>1 DEF ChildTypes, ChildRuns, Child!Idle
  <2>4. childRun'[d].at = "planning"
    BY <2>3 DEF Child!Idle
  <2>5. ChildTypes'
    BY <1>1, <1>2, <2>1, <2>3 DEF ChildTypes
  <2>6. childEntries[d].receipt = Nil /\ childRecords[d] = childEntries[d] /\ childTold[d] = {}
    BY <1>1, <1>5, <2>2 DEF ChildFits, ChildRecordFits, Child!NoRecord
  <2>7. ChildRecordFits(d)' /\ ChildRunFits(d)'
    BY <1>1, <1>2, <1>3, <2>1, <2>2, <2>3, <2>4, <2>6 DEF ChildFits, ChildRecordFits, ChildRunFits, ChildUntouched
  <2>8. ChildReceiptFits(d)'
    BY <1>1, <1>2, <2>1, <2>6 DEF ChildFits, ChildReceiptFits, ChildVerdicts, Child!Terminal, ChildApart
  <2>9. ChildCallsFit(d)' /\ ChildCeilingFits(d)'
    BY <1>1, <1>2, <1>3 DEF ChildFits, ChildCallsFit, ChildCeilingFits
  <2>10. ChildMoves(d)
    BY <1>1, <1>2, <2>1, <2>3 DEF ChildMoves, ChildRested
  <2> QED BY <1>2, <2>1, <2>5, <2>7, <2>8, <2>9, <2>10, ChildMoveKeeps, ChildQuietKeeps DEF ChildFits
<1> QED BY <1>4, <1>5

\* A receipt that is true of what ran, and of what was told, fits.
LEMMA ChildReceiptKeeps ==
  ASSUME ChildApart, ChildInv, NEW d \in ChildDelegations, NEW r \in ChildRecords,
         NEW v \in ChildVerdicts \cup {"unknown"},
         Child!Saved(d, Child!Receipt(r, v)), Child!Tells(d, v), Child!Rests(d) \/ (UNCHANGED childRun /\ childRun[d].at = "rest"),
         UNCHANGED <<childrenOpen, closing, ledger, owners, usage, fate, calls>>,
         r.plan \in Plans, r.plan.effects >= 1, Child!BudgetWithin(r.plan.request.budget, ParentGrant.budget),
         Child!Owned(owners, d) # {} => r.plan = childEntries[d].plan,
         \A k \in Child!Steps : fate[d][k] # "running",
         v = "completed" => /\ \A k \in 1 .. r.plan.effects : fate[d][k] = "completed"
                            /\ Child!Owned(owners, d) \subseteq {u.requestId : u \in {x \in usage : x.complete}},
         v \in Child!Terminal => fate[d][1] # "none",
         v = "not-executed" => ChildUntouched(d),
         childTold[d] # {} => /\ childTold[d] = {"not-executed"} /\ ChildUntouched(d)
                              /\ v = "not-executed" \/ (v = "unknown" /\ r.child = Nil)
  PROVE  ChildInv' /\ ChildKept
<1>1. ChildTypes /\ ChildFits(d)
  BY DEF ChildInv
<1> DEFINE q == Child!Receipt(r, v)
<1>2. q \in ChildRecords /\ q.phase = "receipt" /\ q.receipt = v /\ q.plan = r.plan /\ q.child = r.child
  BY ChildReceiptIs
<1> HIDE DEF q
<1>3. /\ childRecords' \in [ChildDelegations -> ChildRecords] /\ childEntries' \in [ChildDelegations -> ChildRecords]
      /\ childRecords'[d] = q /\ childEntries'[d] = q
      /\ \A e \in ChildDelegations : e # d => childRecords'[e] = childRecords[e] /\ childEntries'[e] = childEntries[e]
  <2>1. Child!Saved(d, q)
    BY DEF q
  <2> QED BY <1>1, <1>2, <2>1, ChildSavedIs
<1>4. /\ childRun' \in [ChildDelegations -> ChildRuns] /\ childRun'[d] = Child!Idle /\ childRun'[d].at = "rest"
      /\ \A e \in ChildDelegations : e # d => childRun'[e] = childRun[e]
  <2>1. CASE Child!Rests(d)
    BY <1>1, <2>1, ChildRestsIs DEF Child!Idle
  <2>2. CASE UNCHANGED childRun /\ childRun[d].at = "rest"
    BY <1>1, <2>2 DEF ChildFits, ChildRunFits, ChildTypes
  <2> QED BY <2>1, <2>2
<1>5. /\ ChildKept /\ childTold' \in [ChildDelegations -> SUBSET ChildVerdicts]
      /\ childTold'[d] = childTold[d] \cup ({v} \ {"unknown"})
      /\ \A e \in ChildDelegations : e # d => childTold'[e] = childTold[e]
  <2>1. 1 \in Child!Steps
    BY DEF ChildApart, Child!Steps
  <2>2. v # "unknown" => calls[d][1] = (IF v = "not-executed" THEN 0 ELSE 1)
    BY <1>1, <2>1 DEF ChildFits, ChildCallsFit, ChildUntouched, ChildVerdicts
  <2>3. v # "unknown" => childTold[d] \subseteq {v}
    OBVIOUS
  <2> QED BY <1>1, <2>2, <2>3, ChildTellsKeeps
<1>6. ChildTypes'
  BY <1>1, <1>3, <1>4, <1>5 DEF ChildTypes
<1>7. Child!Owned(owners, d)' = Child!Owned(owners, d)
  BY DEF Child!Owned
<1>8. ChildRecordFits(d)'
  BY <1>2, <1>3 DEF ChildRecordFits
<1>9. ChildRunFits(d)'
  BY <1>4 DEF ChildRunFits
<1>10. ChildCallsFit(d)'
  BY <1>1 DEF ChildFits, ChildCallsFit
<1>11. ChildCeilingFits(d)'
  BY <1>1, <1>2, <1>3, <1>7 DEF ChildFits, ChildCeilingFits
<1>12. ChildReceiptFits(d)'
  <2>1. /\ v = "completed" => ChildWhole(d)'
        /\ v \in Child!Terminal => fate'[d][1] # "none"
        /\ v = "not-executed" => ChildUntouched(d)'
    BY <1>2, <1>3, <1>7 DEF ChildWhole, ChildUntouched
  <2>2. \A w \in childTold'[d] :
          \/ v = w
          \/ w = "not-executed" /\ v \in {Nil, "unknown"} /\ r.child = Nil /\ ChildUntouched(d)'
    BY <1>5 DEF ChildUntouched
  <2> QED BY <1>2, <1>3, <1>4, <2>1, <2>2 DEF ChildReceiptFits
<1>13. ChildMoves(d)
  BY <1>3, <1>4, <1>5 DEF ChildMoves, ChildRested
<1> QED BY <1>5, <1>6, <1>8, <1>9, <1>10, <1>11, <1>12, <1>13, ChildMoveKeeps DEF ChildFits

\* A plan that is late, or that exceeds the parent, leaves no record.
LEMMA ChildPlanRefusedKeeps ==
  ASSUME ChildApart, ChildInv, NEW d \in ChildDelegations, Child!PlanRefused(d)
  PROVE  ChildInv' /\ ChildKept
<1>1. ChildTypes /\ ChildFits(d) /\ childRun[d].at = "planning" /\ childEntries[d].phase = "none"
  BY DEF ChildInv, ChildFits, Child!PlanRefused, ChildRunFits
<1>2. UNCHANGED <<childrenOpen, closing, ledger, owners, usage, childRecords, childEntries, fate, calls, childTold>>
  BY DEF Child!PlanRefused, Child!pool
<1>3. /\ childRun' \in [ChildDelegations -> ChildRuns] /\ childRun'[d] = Child!Idle /\ childRun'[d].at = "rest"
      /\ \A e \in ChildDelegations : e # d => childRun'[e] = childRun[e]
  BY <1>1, ChildRestsIs DEF Child!PlanRefused, Child!Idle
<1>4. Child!Owned(owners, d)' = Child!Owned(owners, d)
  BY <1>2 DEF Child!Owned
<1>5. ChildTypes'
  BY <1>1, <1>2, <1>3 DEF ChildTypes
<1>6. ChildRunFits(d)'
  BY <1>1, <1>2, <1>3 DEF ChildRunFits, ChildFits, ChildRecordFits, ChildUntouched
<1>7. ChildRecordFits(d)' /\ ChildCallsFit(d)' /\ ChildCeilingFits(d)'
  BY <1>1, <1>2, <1>3, <1>4 DEF ChildFits, ChildRecordFits, ChildCallsFit, ChildCeilingFits, ChildUntouched
<1>8. ChildReceiptFits(d)'
  BY <1>1, <1>2, <1>3, <1>4 DEF ChildFits, ChildReceiptFits, ChildUntouched, ChildWhole
<1>9. ChildMoves(d)
  BY <1>2, <1>3 DEF ChildMoves, ChildRested
<1> QED BY <1>2, <1>5, <1>6, <1>7, <1>8, <1>9, ChildMoveKeeps, ChildQuietKeeps DEF ChildFits

\* A plan that is admitted has an effect and is within the parent's budget.
LEMMA ChildAdmittedIs ==
  ASSUME ChildApart, NEW p \in Plans, Child!PlanAdmitted(p)
  PROVE  p.effects >= 1 /\ Child!BudgetWithin(p.request.budget, ParentGrant.budget)
<1>1. p.effects \in 1 .. p.request.budget.requests /\ Child!DelegateError(ParentGrant, p.request, now) = Nil
  BY DEF Child!PlanAdmitted
<1> QED BY <1>1 DEF ChildApart, Child!DelegateError

\* A plan is on record before its child is there.
LEMMA ChildPlannedKeeps ==
  ASSUME ChildApart, ChildInv, NEW d \in ChildDelegations, NEW p \in Plans, Child!Planned(d, p)
  PROVE  ChildInv' /\ ChildKept
<1>1. ChildTypes /\ ChildFits(d) /\ childRun[d].at = "planning" /\ childEntries[d].phase = "none"
  BY DEF ChildInv, ChildFits, Child!Planned, ChildRunFits
<1>2. /\ childEntries[d] = Child!NoRecord /\ childTold[d] = {} /\ Child!Owned(owners, d) = {} /\ ChildUntouched(d)
      /\ \A k \in Child!Steps : fate[d][k] # "running"
  BY <1>1 DEF ChildFits, ChildRecordFits, ChildUntouched
<1>3. UNCHANGED <<childrenOpen, closing, ledger, owners, usage, fate, calls>>
  BY DEF Child!Planned, Child!pool
<1>4. p.effects >= 1 /\ Child!BudgetWithin(p.request.budget, ParentGrant.budget)
  BY ChildAdmittedIs DEF Child!Planned
<1> DEFINE r == [Child!NoRecord EXCEPT !.phase = "prepared", !.plan = p]
<1>5. r \in ChildRecords /\ r.plan = p /\ r.phase = "prepared" /\ r.child = Nil /\ r.receipt = Nil
  BY DEF Child!NoRecord, ChildRecords
<1>6. CASE ~childrenOpen
  <2>1. Child!Saved(d, Child!Receipt(r, "not-executed")) /\ Child!Tells(d, "not-executed") /\ Child!Rests(d)
    BY <1>6 DEF Child!Planned, Child!Finishes
  <2> HIDE DEF r
  <2>2. "not-executed" \in ChildVerdicts \cup {"unknown"} /\ "not-executed" \notin Child!Terminal
    BY DEF ChildVerdicts, Child!Terminal
  <2> QED BY <1>2, <1>3, <1>4, <1>5, <2>1, <2>2, ChildReceiptKeeps
<1>7. CASE childrenOpen
  <2>1. Child!Saved(d, r) /\ childRun' = [childRun EXCEPT ![d].at = "creating"] /\ UNCHANGED childTold
    BY <1>7 DEF Child!Planned
  <2> HIDE DEF r
  <2>2. /\ childRecords' \in [ChildDelegations -> ChildRecords] /\ childEntries' \in [ChildDelegations -> ChildRecords]
        /\ childRecords'[d] = r /\ childEntries'[d] = r
        /\ \A e \in ChildDelegations : e # d => childRecords'[e] = childRecords[e] /\ childEntries'[e] = childEntries[e]
    BY <1>1, <1>5, <2>1, ChildSavedIs
  <2>3. childRun[d] = [Child!Idle EXCEPT !.at = "planning"]
    BY <1>1 DEF ChildFits, ChildRunFits
  <2>4. /\ childRun' \in [ChildDelegations -> ChildRuns]
        /\ childRun'[d].at = "creating" /\ ~childRun'[d].dispatched
        /\ \A e \in ChildDelegations : e # d => childRun'[e] = childRun[e]
    BY <1>1, <2>1, <2>3 DEF ChildTypes, ChildRuns, Child!Idle
  <2>5. ChildTypes'
    BY <1>1, <1>3, <2>1, <2>2, <2>4 DEF ChildTypes
  <2>6. Child!Owned(owners, d)' = Child!Owned(owners, d)
    BY <1>3 DEF Child!Owned
  <2>7. ChildRecordFits(d)'
    BY <1>4, <1>5, <2>2 DEF ChildRecordFits
  <2>8. ChildRunFits(d)'
    BY <1>2, <1>3, <1>5, <2>1, <2>2, <2>4 DEF ChildRunFits, ChildUntouched
  <2>9. ChildCallsFit(d)' /\ ChildCeilingFits(d)'
    BY <1>1, <1>2, <1>3, <2>6 DEF ChildFits, ChildCallsFit, ChildCeilingFits
  <2>10. ChildReceiptFits(d)'
    BY <1>2, <1>5, <2>1, <2>2 DEF ChildReceiptFits, ChildApart, ChildVerdicts, Child!Terminal
  <2>11. ChildMoves(d)
    BY <1>3, <1>7, <2>1, <2>2, <2>4 DEF ChildMoves, ChildRested
  <2> QED BY <1>3, <2>1, <2>5, <2>7, <2>8, <2>9, <2>10, <2>11, ChildMoveKeeps, ChildQuietKeeps DEF ChildFits
<1> QED BY <1>6, <1>7 DEF ChildInv, ChildTypes

\* Without a session of its own a child runs nothing, and the outcome stays unknown.
LEMMA ChildCreateFailsKeeps ==
  ASSUME ChildApart, ChildInv, NEW d \in ChildDelegations, Child!CreateFails(d)
  PROVE  ChildInv' /\ ChildKept
<1>1. ChildTypes /\ ChildFits(d) /\ childRun[d].at = "creating" /\ childEntries[d] \in ChildRecords
  BY DEF ChildInv, Child!CreateFails, ChildTypes
<1>2. UNCHANGED <<childrenOpen, closing, ledger, owners, usage, fate, calls>>
  BY DEF Child!CreateFails, Child!pool
<1>3. /\ childEntries[d].phase = "prepared" /\ childEntries[d].receipt = Nil /\ childEntries[d].child = Nil /\ ChildUntouched(d)
      /\ childRecords[d] = childEntries[d]
  BY <1>1 DEF ChildFits, ChildRunFits, ChildRecordFits
<1>4. childTold[d] # {} => childTold[d] = {"not-executed"}
  BY <1>1, <1>3 DEF ChildFits, ChildReceiptFits, ChildTypes, ChildVerdicts, Child!Terminal, ChildApart
<1>5. /\ childEntries[d].plan \in Plans /\ childEntries[d].plan.effects >= 1
      /\ Child!BudgetWithin(childEntries[d].plan.request.budget, ParentGrant.budget)
  BY <1>1, <1>3 DEF ChildFits, ChildRecordFits
<1>6. Child!Saved(d, Child!Receipt(childEntries[d], "unknown")) /\ Child!Tells(d, "unknown") /\ Child!Rests(d)
  BY <1>3 DEF Child!CreateFails, Child!Finishes
<1>7. "unknown" \notin ChildVerdicts /\ "unknown" \notin Child!Terminal
  BY DEF ChildVerdicts, Child!Terminal
<1>8. \A k \in Child!Steps : fate[d][k] # "running"
  BY <1>3 DEF ChildUntouched
<1> QED BY <1>1, <1>2, <1>3, <1>4, <1>5, <1>6, <1>7, <1>8, ChildReceiptKeeps

\* The next effect of a child starts.
LEMMA ChildStartsIs ==
  ASSUME ChildApart, ChildTypes, NEW d \in ChildDelegations, NEW k \in Child!Steps, Child!Starts(d, k), fate[d][k] = "none", ChildCallsFit(d)
  PROVE  /\ fate' \in [ChildDelegations -> [Child!Steps -> ChildFates]] /\ calls' \in [ChildDelegations -> [Child!Steps -> {0, 1}]]
         /\ childRun' \in [ChildDelegations -> ChildRuns]
         /\ childRun'[d].at = "working" /\ childRun'[d].dispatched /\ childRun'[d].step = k
         /\ \A j \in Child!Steps : fate'[d][j] = IF j = k THEN "running" ELSE fate[d][j]
         /\ \A j \in Child!Steps : calls'[d][j] = IF j = k THEN 1 ELSE calls[d][j]
         /\ \A e \in ChildDelegations : e # d => fate'[e] = fate[e] /\ calls'[e] = calls[e] /\ childRun'[e] = childRun[e]
         /\ ChildCallsFit(d)'
<1>1. k \in Nat /\ calls[d][k] = 0
  BY DEF ChildApart, Child!Steps, ChildCallsFit
<1>2. /\ fate' \in [ChildDelegations -> [Child!Steps -> ChildFates]]
      /\ \A j \in Child!Steps : fate'[d][j] = IF j = k THEN "running" ELSE fate[d][j]
      /\ \A e \in ChildDelegations : e # d => fate'[e] = fate[e]
  <2>1. fate[d] \in [Child!Steps -> ChildFates] /\ "running" \in ChildFates
    BY DEF ChildTypes, ChildFates
  <2>2. PICK f \in [Child!Steps -> ChildFates] : f = [fate[d] EXCEPT ![k] = "running"]
    BY <2>1
  <2>3. \A j \in Child!Steps : f[j] = IF j = k THEN "running" ELSE fate[d][j]
    BY <2>1, <2>2
  <2>4. fate' = [fate EXCEPT ![d] = f]
    BY <2>2 DEF Child!Starts
  <2> QED BY <2>3, <2>4 DEF ChildTypes
<1>3. /\ calls' \in [ChildDelegations -> [Child!Steps -> {0, 1}]]
      /\ \A j \in Child!Steps : calls'[d][j] = IF j = k THEN 1 ELSE calls[d][j]
      /\ \A e \in ChildDelegations : e # d => calls'[e] = calls[e]
  <2>1. calls[d] \in [Child!Steps -> {0, 1}]
    BY DEF ChildTypes
  <2>2. PICK f \in [Child!Steps -> {0, 1}] : f = [calls[d] EXCEPT ![k] = 1]
    BY <2>1
  <2>3. \A j \in Child!Steps : f[j] = IF j = k THEN 1 ELSE calls[d][j]
    BY <2>1, <2>2
  <2>4. calls[d][k] + 1 = 1
    BY <1>1
  <2>5. calls' = [calls EXCEPT ![d] = f]
    BY <2>2, <2>4 DEF Child!Starts
  <2> QED BY <2>3, <2>5 DEF ChildTypes
<1>4. /\ childRun' \in [ChildDelegations -> ChildRuns]
      /\ childRun'[d].at = "working" /\ childRun'[d].dispatched /\ childRun'[d].step = k
      /\ \A e \in ChildDelegations : e # d => childRun'[e] = childRun[e]
  <2>1. PICK r \in ChildRuns : r = [at |-> "working", interrupted |-> FALSE, dispatched |-> TRUE, step |-> k]
    BY <1>1 DEF ChildRuns
  <2>2. childRun' = [childRun EXCEPT ![d] = r]
    BY <2>1 DEF Child!Starts
  <2> QED BY <2>1, <2>2 DEF ChildTypes
<1>5. ChildCallsFit(d)'
  <2> SUFFICES ASSUME NEW j \in Child!Steps PROVE calls'[d][j] = IF fate'[d][j] = "none" THEN 0 ELSE 1
    BY DEF ChildCallsFit
  <2>1. calls[d][j] = IF fate[d][j] = "none" THEN 0 ELSE 1
    BY DEF ChildCallsFit
  <2> QED BY <1>2, <1>3, <2>1
<1> QED BY <1>2, <1>3, <1>4, <1>5

\* The promise: what begins had not begun, and nothing was told of it.
LEMMA ChildFirstBegins ==
  ASSUME ChildTypes, NEW d \in ChildDelegations, 1 \in Child!Steps, calls[d][1] = 0, calls'[d][1] = 1, childTold[d] = {},
         UNCHANGED childTold, calls' \in [ChildDelegations -> [Child!Steps -> {0, 1}]],
         \A e \in ChildDelegations : e # d => calls'[e] = calls[e]
  PROVE  ChildKept
<1> DEFINE begun == [x \in ChildDelegations |-> calls[x][1]]
<1>1. begun' = [begun EXCEPT ![d] = 1] /\ begun[d] = 0
  OBVIOUS
<1>2. ChildContract!Begin(d)
  BY <1>1 DEF ChildContract!Begin
<1> QED BY <1>2 DEF ChildKept, ChildContract!Next

\* What follows the first is none of it.
LEMMA ChildNextIsQuiet ==
  ASSUME UNCHANGED childTold, \A e \in ChildDelegations : calls'[e][1] = calls[e][1]
  PROVE  ChildKept
BY DEF ChildKept, ChildContract!vars

\* A child is on record before its first effect begins.
LEMMA ChildCreatedKeeps ==
  ASSUME ChildApart, ChildInv, NEW d \in ChildDelegations, NEW s \in Sessions, Child!Created(d, s)
  PROVE  ChildInv' /\ ChildKept
<1>1. ChildTypes /\ ChildFits(d) /\ childRun[d].at = "creating" /\ childEntries[d] \in ChildRecords
  BY DEF ChildInv, Child!Created, ChildTypes
<1>2. UNCHANGED <<childrenOpen, closing, ledger, owners, usage>>
  BY DEF Child!Created, Child!pool
<1>3. /\ childEntries[d].phase = "prepared" /\ childEntries[d].receipt = Nil /\ childEntries[d].child = Nil /\ ChildUntouched(d)
      /\ childRecords[d] = childEntries[d] /\ ~childRun[d].dispatched /\ (childTold[d] # {} => childRun[d].interrupted)
      /\ ChildCallsFit(d)
  BY <1>1 DEF ChildFits, ChildRunFits, ChildRecordFits
<1>4. childTold[d] # {} => childTold[d] = {"not-executed"}
  BY <1>1, <1>3 DEF ChildFits, ChildReceiptFits, ChildTypes, ChildVerdicts, Child!Terminal, ChildApart
<1>5. /\ childEntries[d].plan \in Plans /\ childEntries[d].plan.effects >= 1
      /\ Child!BudgetWithin(childEntries[d].plan.request.budget, ParentGrant.budget)
  BY <1>1, <1>3 DEF ChildFits, ChildRecordFits
<1>6. \A k \in Child!Steps : fate[d][k] # "running" /\ fate[d][k] = "none" /\ calls[d][k] = 0
  BY <1>3 DEF ChildUntouched, ChildCallsFit
<1> DEFINE created == [childEntries[d] EXCEPT !.child = s, !.phase = "created"]
           r == [created EXCEPT !.phase = "dispatched"]
<1>7. created \in ChildRecords /\ created.plan = childEntries[d].plan
  BY <1>1 DEF ChildRecords
<1>8. r \in ChildRecords /\ r.plan = childEntries[d].plan /\ r.phase = "dispatched" /\ r.receipt = Nil
  BY <1>1, <1>3 DEF ChildRecords
<1>9. CASE Child!MayDispatch(d)
  <2>1. Child!Saved(d, r) /\ Child!Starts(d, 1) /\ UNCHANGED childTold /\ ~childRun[d].interrupted
    BY <1>3, <1>9 DEF Child!Created, Child!MayDispatch
  <2> HIDE DEF r
  <2>2. /\ childRecords' \in [ChildDelegations -> ChildRecords] /\ childEntries' \in [ChildDelegations -> ChildRecords]
        /\ childRecords'[d] = r /\ childEntries'[d] = r
        /\ \A e \in ChildDelegations : e # d => childRecords'[e] = childRecords[e] /\ childEntries'[e] = childEntries[e]
    BY <1>1, <1>8, <2>1, ChildSavedIs
  <2>3. 1 \in Child!Steps
    BY DEF ChildApart, Child!Steps
  <2>4. /\ fate' \in [ChildDelegations -> [Child!Steps -> ChildFates]] /\ calls' \in [ChildDelegations -> [Child!Steps -> {0, 1}]]
        /\ childRun' \in [ChildDelegations -> ChildRuns]
        /\ childRun'[d].at = "working" /\ childRun'[d].dispatched /\ childRun'[d].step = 1
        /\ \A j \in Child!Steps : fate'[d][j] = IF j = 1 THEN "running" ELSE fate[d][j]
        /\ \A j \in Child!Steps : calls'[d][j] = IF j = 1 THEN 1 ELSE calls[d][j]
        /\ \A e \in ChildDelegations : e # d => fate'[e] = fate[e] /\ calls'[e] = calls[e] /\ childRun'[e] = childRun[e]
        /\ ChildCallsFit(d)'
    BY <1>1, <1>3, <1>6, <2>1, <2>3, ChildStartsIs
  <2>5. childTold[d] = {}
    BY <1>3, <2>1
  <2>6. ChildKept
    BY <1>1, <1>6, <2>1, <2>3, <2>4, <2>5, ChildFirstBegins
  <2>7. ChildTypes'
    BY <1>1, <1>2, <2>1, <2>2, <2>4 DEF ChildTypes
  <2>8. Child!Owned(owners, d)' = Child!Owned(owners, d)
    BY <1>2 DEF Child!Owned
  <2>9. ChildRecordFits(d)'
    BY <1>5, <1>8, <2>2 DEF ChildRecordFits
  <2>10. ChildRunFits(d)'
    <3>1. 1 \in 1 .. r.plan.effects
      BY <1>5, <1>8 DEF ChildApart
    <3>2. \A k \in Child!Steps : ~(k < 1)
      BY DEF Child!Steps
    <3> QED BY <1>6, <1>8, <2>1, <2>2, <2>4, <2>5, <3>1, <3>2 DEF ChildRunFits
  <2>11. ChildCeilingFits(d)'
    BY <1>1, <1>8, <2>2, <2>8 DEF ChildFits, ChildCeilingFits
  <2>12. ChildReceiptFits(d)'
    BY <1>8, <2>1, <2>2, <2>5 DEF ChildReceiptFits, ChildApart, ChildVerdicts, Child!Terminal
  <2>13. ChildMoves(d)
    BY <1>1, <1>2, <2>1, <2>2, <2>4 DEF ChildMoves, ChildRested
  <2> QED BY <2>4, <2>6, <2>7, <2>9, <2>10, <2>11, <2>12, <2>13, ChildMoveKeeps DEF ChildFits
<1>10. CASE ~Child!MayDispatch(d)
  <2>1. /\ Child!Saved(d, Child!Receipt(created, "not-executed")) /\ Child!Tells(d, "not-executed") /\ Child!Rests(d)
        /\ UNCHANGED <<fate, calls>>
    BY <1>3, <1>10 DEF Child!Created, Child!Finishes
  <2> HIDE DEF created
  <2>2. "not-executed" \in ChildVerdicts \cup {"unknown"} /\ "not-executed" \notin Child!Terminal
    BY DEF ChildVerdicts, Child!Terminal
  <2>3. created.plan \in Plans /\ created.plan.effects >= 1
        /\ Child!BudgetWithin(created.plan.request.budget, ParentGrant.budget)
    BY <1>5, <1>7
  <2> QED BY <1>2, <1>3, <1>4, <1>6, <1>7, <2>1, <2>2, <2>3, ChildReceiptKeeps
<1> QED BY <1>9, <1>10

\* An effect of a child ends with one outcome.
LEMMA ChildSettlesKeeps ==
  ASSUME ChildApart, ChildInv, NEW d \in ChildDelegations, NEW o \in ChildOutcomes, Child!ChildSettles(d, o)
  PROVE  ChildInv' /\ ChildKept
<1>1. ChildTypes /\ ChildFits(d) /\ childRun[d].at = "working" /\ o \in Child!Terminal \cup {"lost"}
  BY DEF ChildInv, Child!ChildSettles, ChildApart
<1>2. UNCHANGED <<childrenOpen, closing, ledger, owners, usage, childRecords, childEntries, childRun, calls, childTold>>
  BY DEF Child!ChildSettles, Child!binding, Child!pool
<1> DEFINE k == childRun[d].step
<1>3. k \in Child!Steps /\ fate[d][k] = "running" /\ childEntries[d].receipt = Nil
  BY <1>1 DEF Child!ChildSettles, ChildFits, ChildRunFits, ChildRecordFits, Child!Steps, ChildApart
<1>4. /\ fate' \in [ChildDelegations -> [Child!Steps -> ChildFates]]
      /\ \A j \in Child!Steps : fate'[d][j] = IF j = k THEN o ELSE fate[d][j]
      /\ \A e \in ChildDelegations : e # d => fate'[e] = fate[e]
  BY <1>1, <1>3 DEF Child!ChildSettles, ChildTypes, ChildFates
<1>5. o # "none"
  BY <1>1 DEF Child!Terminal
<1>6. Child!Owned(owners, d)' = Child!Owned(owners, d)
  BY <1>2 DEF Child!Owned
<1>7. ChildTypes'
  BY <1>1, <1>2, <1>4 DEF ChildTypes
<1>8. ChildRecordFits(d)'
  BY <1>1, <1>2, <1>6 DEF ChildFits, ChildRecordFits, ChildRunFits
<1>9. ChildCallsFit(d)'
  BY <1>1, <1>2, <1>3, <1>4, <1>5 DEF ChildFits, ChildCallsFit
<1>10. ChildRunFits(d)'
  <2>1. \A j \in Child!Steps : j < k => j # k
    BY DEF Child!Steps
  <2>2. \A j \in Child!Steps : j > k => j # k
    BY DEF Child!Steps
  <2> QED BY <1>1, <1>2, <1>4, <1>5, <2>1, <2>2 DEF ChildFits, ChildRunFits
<1>11. ChildReceiptFits(d)'
  BY <1>1, <1>2, <1>3 DEF ChildFits, ChildReceiptFits, ChildRunFits, Child!Terminal, ChildApart, ChildVerdicts
<1>12. ChildCeilingFits(d)'
  BY <1>1, <1>2, <1>6 DEF ChildFits, ChildCeilingFits
<1>13. ChildMoves(d)
  BY <1>1, <1>2, <1>4 DEF ChildMoves, ChildRested
<1> QED BY <1>2, <1>7, <1>8, <1>9, <1>10, <1>11, <1>12, <1>13, ChildMoveKeeps, ChildQuietKeeps DEF ChildFits

\* The step is done: the next effect begins, or all of them are aggregated.
LEMMA ChildReturnsKeeps ==
  ASSUME ChildApart, ChildInv, NEW d \in ChildDelegations, Child!ChildReturns(d)
  PROVE  ChildInv' /\ ChildKept
<1> DEFINE k == childRun[d].step
           results == [j \in 1 .. k |-> fate[d][j]]
           more == /\ fate[d][k] = "completed" /\ k < childRecords[d].plan.effects
                   /\ ~childRun[d].interrupted /\ childrenOpen
           late == now >= Child!Until(d, childRecords[d].plan)
           v == IF more THEN "unknown" ELSE Child!Aggregate(d, results, childRun[d].interrupted)
<1>1. ChildTypes /\ ChildFits(d) /\ childRun[d].at = "working" /\ fate[d][k] # "running" /\ childEntries[d] \in ChildRecords
  BY DEF ChildInv, Child!ChildReturns, ChildTypes
<1>2. UNCHANGED <<childrenOpen, closing, ledger, owners, usage>>
  BY DEF Child!ChildReturns, Child!pool
<1>3. /\ childEntries[d].phase = "dispatched" /\ childEntries[d].receipt = Nil /\ childTold[d] = {} /\ childRecords[d] = childEntries[d]
      /\ k \in 1 .. childEntries[d].plan.effects /\ ChildCallsFit(d)
  BY <1>1 DEF ChildFits, ChildRunFits, ChildRecordFits
<1>4. \A j \in Child!Steps : /\ j < k => fate[d][j] = "completed"
                             /\ j > k => fate[d][j] = "none"
                             /\ j = k => fate[d][j] # "none"
  BY <1>1 DEF ChildFits, ChildRunFits
<1>5. /\ childEntries[d].plan \in Plans /\ childEntries[d].plan.effects >= 1
      /\ Child!BudgetWithin(childEntries[d].plan.request.budget, ParentGrant.budget)
  BY <1>1, <1>3 DEF ChildFits, ChildRecordFits
<1>6. childEntries[d].plan.effects \in Nat /\ childEntries[d].plan.effects <= MaxSteps /\ MaxSteps \in Nat /\ k \in Child!Steps /\ 1 \in Child!Steps
  BY <1>3, <1>5 DEF ChildApart, Child!Steps
<1>7. CASE more /\ ~late
  <2>1. Child!Starts(d, k + 1) /\ UNCHANGED <<childRecords, childEntries, childTold>>
    BY <1>7 DEF Child!ChildReturns
  <2>2. /\ k + 1 \in Child!Steps /\ k + 1 \in 1 .. childEntries[d].plan.effects /\ k + 1 # 1 /\ k + 1 > k
        /\ \A j \in Child!Steps : /\ j < k + 1 => j < k \/ j = k
                                  /\ j > k + 1 => j > k
    BY <1>3, <1>6, <1>7 DEF Child!Steps
  <2>3. PICK m \in Child!Steps : m = k + 1
    BY <2>2
  <2>4. fate[d][m] = "none"
    BY <1>4, <2>2, <2>3
  <2>5. /\ fate' \in [ChildDelegations -> [Child!Steps -> ChildFates]] /\ calls' \in [ChildDelegations -> [Child!Steps -> {0, 1}]]
        /\ childRun' \in [ChildDelegations -> ChildRuns]
        /\ childRun'[d].at = "working" /\ childRun'[d].dispatched /\ childRun'[d].step = m
        /\ \A j \in Child!Steps : fate'[d][j] = IF j = m THEN "running" ELSE fate[d][j]
        /\ \A j \in Child!Steps : calls'[d][j] = IF j = m THEN 1 ELSE calls[d][j]
        /\ \A e \in ChildDelegations : e # d => fate'[e] = fate[e] /\ calls'[e] = calls[e] /\ childRun'[e] = childRun[e]
        /\ ChildCallsFit(d)'
    BY <1>1, <1>3, <2>1, <2>3, <2>4, ChildStartsIs
  <2>6. ChildKept
    BY <1>6, <2>1, <2>2, <2>3, <2>5, ChildNextIsQuiet
  <2>7. ChildTypes'
    BY <1>1, <1>2, <2>1, <2>5 DEF ChildTypes
  <2>8. Child!Owned(owners, d)' = Child!Owned(owners, d)
    BY <1>2 DEF Child!Owned
  <2>9. ChildRecordFits(d)'
    BY <1>3, <1>5, <2>1 DEF ChildRecordFits
  <2>10. \A j \in Child!Steps : /\ j < m => fate'[d][j] = "completed"
                                /\ j > m => fate'[d][j] = "none"
                                /\ j = m => fate'[d][j] # "none"
    <3> SUFFICES ASSUME NEW j \in Child!Steps
                 PROVE  /\ j < m => fate'[d][j] = "completed"
                        /\ j > m => fate'[d][j] = "none"
                        /\ j = m => fate'[d][j] # "none"
      OBVIOUS
    <3>1. /\ j < m => (j < k \/ j = k) /\ j # m
          /\ j > m => j > k /\ j # m
      BY <2>2, <2>3 DEF Child!Steps
    <3>2. fate[d][k] = "completed"
      BY <1>7
    <3> QED BY <1>4, <2>5, <3>1, <3>2
  <2>11. ChildRunFits(d)'
    BY <1>3, <2>1, <2>2, <2>3, <2>5, <2>10 DEF ChildRunFits
  <2>12. ChildCeilingFits(d)'
    BY <1>1, <2>1, <2>8 DEF ChildFits, ChildCeilingFits
  <2>13. ChildReceiptFits(d)'
    BY <1>3, <2>1 DEF ChildReceiptFits, ChildApart, ChildVerdicts, Child!Terminal
  <2>14. ChildMoves(d)
    BY <1>1, <1>2, <2>1, <2>5 DEF ChildMoves, ChildRested
  <2> QED BY <2>5, <2>6, <2>7, <2>9, <2>11, <2>12, <2>13, <2>14, ChildMoveKeeps DEF ChildFits
<1>8. CASE ~(more /\ ~late)
  <2>1. /\ Child!Saved(d, Child!Receipt(childEntries[d], v)) /\ Child!Tells(d, v) /\ Child!Rests(d) /\ UNCHANGED <<fate, calls>>
    BY <1>3, <1>8 DEF Child!ChildReturns, Child!Finishes
  <2>2. /\ v \in ChildVerdicts \cup {"unknown"} /\ v # "not-executed"
        /\ v = "completed" => /\ Cardinality(DOMAIN results) = childRecords[d].plan.effects
                              /\ \A j \in DOMAIN results : results[j] = "completed"
                              /\ Child!UsageComplete(d)
    <3>1. PICK w : w = Child!Aggregate(d, results, childRun[d].interrupted)
      OBVIOUS
    <3> HIDE DEF results
    <3>2. /\ w \in Child!Terminal \cup {"unknown"}
          /\ w # "unknown" => /\ Cardinality(DOMAIN results) = childRecords[d].plan.effects
                              /\ Child!UsageComplete(d)
          /\ w = "completed" => \A j \in DOMAIN results : results[j] = "completed"
      BY <3>1, ChildAggregateIs
    <3>3. v = "unknown" \/ v = w
      BY <3>1
    <3> HIDE DEF v
    <3> QED BY <3>2, <3>3 DEF ChildVerdicts, Child!Terminal
  <2>3. v = "completed" => /\ \A j \in 1 .. childEntries[d].plan.effects : fate[d][j] = "completed"
                           /\ Child!Owned(owners, d) \subseteq {u.requestId : u \in {x \in usage : x.complete}}
    <3> SUFFICES ASSUME v = "completed"
                 PROVE  /\ \A j \in 1 .. childEntries[d].plan.effects : fate[d][j] = "completed"
                        /\ Child!Owned(owners, d) \subseteq {u.requestId : u \in {x \in usage : x.complete}}
      OBVIOUS
    <3>1. DOMAIN results = 1 .. k /\ \A j \in 1 .. k : results[j] = fate[d][j]
      OBVIOUS
    <3>2. k \in Nat /\ k >= 1 /\ Cardinality(1 .. k) = k
      <4>1. k \in Nat /\ k >= 1 /\ k \in Int /\ 1 \in Int
        BY <1>3, <1>6
      <4>2. Cardinality(1 .. k) = IF 1 > k THEN 0 ELSE k - 1 + 1
        BY <4>1, FS_Interval
      <4> QED BY <4>1, <4>2
    <3>3. k = childEntries[d].plan.effects
      BY <1>3, <2>2, <3>1, <3>2
    <3> QED BY <2>2, <3>1, <3>3, ChildCompleteIsPaid
  <2> HIDE DEF v
  <2>4. v \in Child!Terminal => fate[d][1] # "none"
    <3>1. 1 < k \/ 1 = k
      BY <1>3, <1>6
    <3> QED BY <1>4, <1>6, <3>1
  <2>5. \A j \in Child!Steps : fate[d][j] # "running"
    <3> SUFFICES ASSUME NEW j \in Child!Steps PROVE fate[d][j] # "running"
      OBVIOUS
    <3>1. j < k \/ j = k \/ j > k
      BY <1>6 DEF Child!Steps
    <3> QED BY <1>1, <1>4, <3>1
  <2> QED BY <1>1, <1>2, <1>3, <1>5, <2>1, <2>2, <2>3, <2>4, <2>5, ChildReceiptKeeps
<1> QED BY <1>7, <1>8

\* What was running is lost.
LEMMA ChildLostIs ==
  ASSUME NEW f \in [Child!Steps -> ChildFates], NEW g, g = [k \in Child!Steps |-> IF f[k] = "running" THEN "lost" ELSE f[k]]
  PROVE  /\ g \in [Child!Steps -> ChildFates]
         /\ \A k \in Child!Steps : /\ g[k] # "running" /\ (g[k] = "none" <=> f[k] = "none")
                                   /\ f[k] # "running" => g[k] = f[k]
BY DEF ChildFates

\* What throws is remembered as unknown, and the file is behind by that alone.
LEMMA ChildInvokeFailsKeeps ==
  ASSUME ChildApart, ChildInv, NEW d \in ChildDelegations, Child!InvokeFails(d)
  PROVE  ChildInv' /\ ChildKept
<1>1. ChildTypes /\ ChildFits(d) /\ childRun[d].at \in {"creating", "working"} /\ childEntries[d] \in ChildRecords
      /\ fate[d] \in [Child!Steps -> ChildFates]
  BY DEF ChildInv, Child!InvokeFails, ChildTypes
<1>2. UNCHANGED <<childrenOpen, closing, ledger, owners, usage, childEntries, calls, childTold>>
  BY DEF Child!InvokeFails, Child!pool
<1>3. childEntries[d].phase # "none" /\ childEntries[d].receipt = Nil /\ childRecords[d] = childEntries[d]
  BY <1>1 DEF ChildFits, ChildRunFits, ChildRecordFits
<1>4. PICK r \in ChildRecords : r = Child!Receipt(childEntries[d], "unknown")
  BY <1>1, ChildReceiptIs
<1>5. /\ childRecords' \in [ChildDelegations -> ChildRecords] /\ childRecords'[d] = r
      /\ \A e \in ChildDelegations : e # d => childRecords'[e] = childRecords[e]
  <2>1. childRecords' = [childRecords EXCEPT ![d] = r]
    BY <1>3, <1>4 DEF Child!InvokeFails
  <2> QED BY <1>1, <2>1 DEF ChildTypes
<1>6. /\ childRun' \in [ChildDelegations -> ChildRuns] /\ childRun'[d] = Child!Idle /\ childRun'[d].at = "rest"
      /\ \A e \in ChildDelegations : e # d => childRun'[e] = childRun[e]
  BY <1>1, ChildRestsIs DEF Child!InvokeFails, Child!Idle
<1>7. PICK g : g = [k \in Child!Steps |-> IF fate[d][k] = "running" THEN "lost" ELSE fate[d][k]]
  OBVIOUS
<1>8. /\ g \in [Child!Steps -> ChildFates]
      /\ \A k \in Child!Steps : g[k] # "running" /\ (g[k] = "none" <=> fate[d][k] = "none")
  BY <1>1, <1>7, ChildLostIs
<1>9. /\ fate' \in [ChildDelegations -> [Child!Steps -> ChildFates]] /\ fate'[d] = g
      /\ \A e \in ChildDelegations : e # d => fate'[e] = fate[e]
  <2>1. fate' = [fate EXCEPT ![d] = g]
    BY <1>7 DEF Child!InvokeFails
  <2> QED BY <1>1, <1>8, <2>1 DEF ChildTypes
<1>10. ChildTypes'
  BY <1>1, <1>2, <1>5, <1>6, <1>9 DEF ChildTypes
<1>11. Child!Owned(owners, d)' = Child!Owned(owners, d)
  BY <1>2 DEF Child!Owned
<1>12. ChildRecordFits(d)'
  BY <1>1, <1>2, <1>3, <1>4, <1>5, <1>6 DEF ChildFits, ChildRecordFits
<1>13. ChildRunFits(d)'
  BY <1>6, <1>8, <1>9 DEF ChildRunFits
<1>14. ChildCallsFit(d)'
  BY <1>1, <1>2, <1>8, <1>9 DEF ChildFits, ChildCallsFit
<1>15. ChildCeilingFits(d)'
  BY <1>1, <1>2, <1>11 DEF ChildFits, ChildCeilingFits
<1>16. ChildReceiptFits(d)'
  BY <1>1, <1>2, <1>3, <1>8, <1>9
  DEF ChildFits, ChildReceiptFits, ChildUntouched, ChildApart, ChildVerdicts, Child!Terminal
<1>17. ChildMoves(d)
  BY <1>2, <1>5, <1>6, <1>9 DEF ChildMoves, ChildRested
<1> QED BY <1>2, <1>10, <1>12, <1>13, <1>14, <1>15, <1>16, <1>17, ChildMoveKeeps, ChildQuietKeeps DEF ChildFits

\* cancel interrupts a run; one that has not dispatched is certainly not executed.
LEMMA ChildCancelKeeps ==
  ASSUME ChildApart, ChildInv, NEW d \in ChildDelegations, Child!Cancel(d)
  PROVE  ChildInv' /\ ChildKept
<1>1. ChildTypes /\ ChildFits(d) /\ childRun[d].at \in {"creating", "working"} /\ childEntries[d] \in ChildRecords
      /\ childRun[d] \in ChildRuns
  BY DEF ChildInv, Child!Cancel, ChildTypes
<1>2. UNCHANGED <<childrenOpen, closing, ledger, owners, usage, childRecords, childEntries, fate, calls>>
  BY DEF Child!Cancel, Child!pool
<1>3. PICK r \in ChildRuns : r = [childRun[d] EXCEPT !.interrupted = TRUE]
  BY <1>1 DEF ChildRuns
<1>4. r.at = childRun[d].at /\ r.interrupted /\ r.dispatched = childRun[d].dispatched /\ r.step = childRun[d].step
  BY <1>1, <1>3 DEF ChildRuns
<1>5. /\ childRun' \in [ChildDelegations -> ChildRuns] /\ childRun'[d] = r
      /\ \A e \in ChildDelegations : e # d => childRun'[e] = childRun[e]
  <2>1. childRun' = [childRun EXCEPT ![d] = r]
    BY <1>3 DEF Child!Cancel
  <2> QED BY <1>1, <2>1 DEF ChildTypes
<1>6. Child!Owned(owners, d)' = Child!Owned(owners, d)
  BY <1>2 DEF Child!Owned
<1>7. 1 \in Child!Steps /\ "not-executed" \in ChildVerdicts
  BY DEF ChildApart, Child!Steps, ChildVerdicts
<1>8. /\ ChildKept /\ childTold' \in [ChildDelegations -> SUBSET ChildVerdicts]
      /\ childTold'[d] = childTold[d] \/ (childRun[d].at = "creating" /\ childTold'[d] = {"not-executed"})
      /\ \A e \in ChildDelegations : e # d => childTold'[e] = childTold[e]
  <2>1. CASE childRun[d].dispatched
    <3>1. UNCHANGED childTold
      BY <2>1 DEF Child!Cancel
    <3> QED BY <1>1, <1>2, <3>1, ChildQuietKeeps DEF ChildTypes
  <2>2. CASE ~childRun[d].dispatched
    <3>1. Child!Tells(d, "not-executed") /\ childRun[d].at = "creating"
      BY <1>1, <2>2 DEF Child!Cancel, ChildFits, ChildRunFits
    <3>2. ChildUntouched(d) /\ childEntries[d].receipt = Nil
      BY <1>1, <3>1 DEF ChildFits, ChildRunFits
    <3>3. childTold[d] \subseteq {"not-executed"}
      BY <1>1, <3>2 DEF ChildFits, ChildReceiptFits, ChildTypes, ChildVerdicts, Child!Terminal, ChildApart
    <3>4. calls[d][1] = 0
      BY <1>1, <1>7, <3>2 DEF ChildFits, ChildCallsFit, ChildUntouched
    <3>5. PICK v \in ChildVerdicts \cup {"unknown"} : v = "not-executed"
      BY <1>7
    <3>6. /\ ChildKept /\ childTold' \in [ChildDelegations -> SUBSET ChildVerdicts]
          /\ childTold'[d] = childTold[d] \cup ({v} \ {"unknown"})
          /\ \A e \in ChildDelegations : e # d => childTold'[e] = childTold[e]
      BY <1>1, <1>2, <3>1, <3>3, <3>4, <3>5, ChildTellsKeeps
    <3> QED BY <3>1, <3>3, <3>5, <3>6
  <2> QED BY <2>1, <2>2 DEF ChildTypes, ChildRuns
<1>9. ChildTypes'
  BY <1>1, <1>2, <1>5, <1>8 DEF ChildTypes
<1>10. ChildRecordFits(d)'
  BY <1>1, <1>2, <1>4, <1>5, <1>6 DEF ChildFits, ChildRunFits, ChildRecordFits
<1>11. ChildRunFits(d)'
  BY <1>1, <1>2, <1>4, <1>5, <1>8 DEF ChildFits, ChildRunFits, ChildUntouched
<1>12. ChildCallsFit(d)' /\ ChildCeilingFits(d)'
  BY <1>1, <1>2, <1>6 DEF ChildFits, ChildCallsFit, ChildCeilingFits
<1>13. ChildReceiptFits(d)'
  <2>1. childEntries[d].receipt = Nil
    BY <1>1 DEF ChildFits, ChildRunFits
  <2>2. \A v \in childTold'[d] : v = "not-executed" /\ childEntries[d].child = Nil /\ ChildUntouched(d)
    BY <1>1, <1>8, <2>1
    DEF ChildFits, ChildRunFits, ChildReceiptFits, ChildTypes, ChildVerdicts, Child!Terminal, ChildApart
  <2> QED BY <1>2, <2>1, <2>2 DEF ChildReceiptFits, ChildApart, ChildUntouched, ChildVerdicts, Child!Terminal
<1>14. ChildMoves(d)
  BY <1>1, <1>2, <1>5, <1>8 DEF ChildMoves, ChildRested
<1> QED BY <1>8, <1>9, <1>10, <1>11, <1>12, <1>13, <1>14, ChildMoveKeeps DEF ChildFits

-----------------------------------------------------------------------------
(* Reconciliation, requests and the process.                                    *)

\* reconcile aggregates a child that is at rest, and runs nothing.
LEMMA ChildReconcileKeeps ==
  ASSUME ChildApart, ChildInv, NEW d \in ChildDelegations, Child!Reconcile(d)
  PROVE  ChildInv' /\ ChildKept
<1> DEFINE r == childRecords[d]
           results == [k \in 1 .. r.plan.effects |-> fate[d][k]]
           readable == /\ r.receipt \in {Nil, "unknown"} /\ d \notin Child!Pending /\ r.child # Nil
                       /\ \A k \in 1 .. r.plan.effects : fate[d][k] \in Child!Terminal
           v == Child!Aggregate(d, results, FALSE)
<1>1. ChildTypes /\ ChildFits(d) /\ r \in ChildRecords /\ childEntries[d] \in ChildRecords /\ r # Child!NoRecord
  BY DEF ChildInv, ChildTypes, Child!Reconcile
<1>2. UNCHANGED <<childrenOpen, closing, ledger, owners, usage, childRun, fate, calls>>
  BY DEF Child!Reconcile, Child!pool
<1>3. CASE ~readable
  <2>1. /\ Child!Tells(d, IF childRecords[d].receipt = Nil THEN "unknown" ELSE childRecords[d].receipt)
        /\ UNCHANGED <<childRecords, childEntries>>
    BY <1>3 DEF Child!Reconcile
  <2> QED BY <1>1, <1>2, <2>1, ChildRepeatKeeps
<1>4. CASE readable
  <2>1. Child!Saved(d, Child!Receipt(r, v)) /\ Child!Tells(d, v)
    BY <1>4 DEF Child!Reconcile
  <2>2. /\ childRun[d].at = "rest" /\ \A k \in Child!Steps : fate[d][k] # "running"
    BY <1>1, <1>4 DEF Child!Pending, ChildFits, ChildRunFits
  <2>3. /\ r.plan = childEntries[d].plan /\ r.child = childEntries[d].child /\ childEntries[d].phase # "none"
        /\ childEntries[d].receipt \in {Nil, "unknown"}
    <3>1. CASE r = childEntries[d]
      BY <1>1, <1>4, <3>1 DEF ChildFits, ChildRecordFits
    <3>2. CASE r = Child!Receipt(childEntries[d], "unknown") /\ childEntries[d].receipt = Nil /\ childEntries[d].phase # "none"
      BY <1>1, <3>2, ChildReceiptIs
    <3> QED BY <1>1, <3>1, <3>2 DEF ChildFits, ChildRecordFits
  <2>4. childTold[d] = {}
    BY <1>1, <1>4, <2>3 DEF ChildFits, ChildReceiptFits, ChildTypes, ChildVerdicts, Child!Terminal, ChildApart
  <2>5. /\ r.plan \in Plans /\ r.plan.effects >= 1 /\ Child!BudgetWithin(r.plan.request.budget, ParentGrant.budget)
    BY <1>1, <2>3 DEF ChildFits, ChildRecordFits
  <2>6. DOMAIN results = 1 .. r.plan.effects /\ \A k \in 1 .. r.plan.effects : results[k] = fate[d][k]
    OBVIOUS
  <2>7. /\ v \in ChildVerdicts \cup {"unknown"} /\ v # "not-executed"
        /\ v = "completed" => /\ \A k \in 1 .. r.plan.effects : fate[d][k] = "completed"
                              /\ Child!UsageComplete(d)
    <3> PICK i : i = FALSE
      OBVIOUS
    <3>1. PICK w : w = Child!Aggregate(d, results, i)
      OBVIOUS
    <3>2. w = v
      BY <3>1
    <3> HIDE DEF v, results
    <3>3. /\ w \in Child!Terminal \cup {"unknown"}
          /\ w # "unknown" => Child!UsageComplete(d)
          /\ w = "completed" => \A k \in DOMAIN results : results[k] = "completed"
      BY <3>1, ChildAggregateIs
    <3> QED BY <2>6, <3>2, <3>3 DEF ChildVerdicts, Child!Terminal
  <2> HIDE DEF v
  <2>8. fate[d][1] # "none"
    <3>1. 1 \in 1 .. r.plan.effects
      BY <2>5 DEF ChildApart
    <3> QED BY <1>4, <3>1 DEF Child!Terminal
  <2> QED BY <1>1, <1>2, <2>1, <2>2, <2>3, <2>4, <2>5, <2>7, <2>8, ChildCompleteIsPaid, ChildReceiptKeeps
<1> QED BY <1>3, <1>4

\* Requests and rows leave the cost of a reservation as it is.
LEMMA ChildLedgerIs ==
  ASSUME ChildPoolFits,
         \/ ledger' = ledger
         \/ \E r \in ProviderRequests : ledger' = Child!Pool!AfterReserve(ledger, r)
         \/ \E row \in ProviderRows : ledger' = Child!Pool!AfterSettle(ledger, row)
  PROVE  ChildPoolFits'
<1>1. CASE ledger' = ledger
  BY <1>1 DEF ChildPoolFits
<1>2. ASSUME NEW r \in ProviderRequests, ledger' = Child!Pool!AfterReserve(ledger, r) PROVE ChildPoolFits'
  BY <1>2 DEF ChildPoolFits, Child!Pool!AfterReserve
<1>3. ASSUME NEW row \in ProviderRows, ledger' = Child!Pool!AfterSettle(ledger, row) PROVE ChildPoolFits'
  BY <1>3 DEF ChildPoolFits, Child!Pool!AfterSettle, Child!Pool!Moved
<1> QED BY <1>1, <1>2, <1>3

\* What a delegation is made of, but for its requests and their usage.
LEMMA ChildOwnersKeep ==
  ASSUME ChildInv, UNCHANGED <<childrenOpen, closing, childRecords, childEntries, childRun, fate, calls, childTold>>, ChildPoolFits',
         \A d \in ChildDelegations : ChildCeilingFits(d)'
                                     /\ (childEntries[d].phase = "none" => Child!Owned(owners, d)' = {})
                                     /\ (childEntries[d].receipt = "completed" => ChildWhole(d)')
  PROVE  ChildInv' /\ ChildKept
<1>1. ChildTypes' /\ ChildClosingFits'
  BY DEF ChildInv, ChildTypes, ChildClosingFits, Child!Pending
<1>2. ASSUME NEW d \in ChildDelegations PROVE ChildFits(d)'
  <2>1. ChildFits(d) /\ ChildCeilingFits(d)'
    BY DEF ChildInv
  <2>2. ChildRecordFits(d)'
    BY <2>1 DEF ChildFits, ChildRecordFits, ChildUntouched
  <2>3. ChildRunFits(d)' /\ ChildCallsFit(d)'
    BY <2>1 DEF ChildFits, ChildRunFits, ChildCallsFit, ChildUntouched
  <2>4. ChildReceiptFits(d)'
    BY <2>1 DEF ChildFits, ChildReceiptFits, ChildUntouched
  <2> QED BY <2>1, <2>2, <2>3, <2>4 DEF ChildFits
<1> QED BY <1>1, <1>2, ChildQuietKeeps DEF ChildInv

\* A request is owned by the invocation that made it.
LEMMA ChildReservesIs ==
  ASSUME NEW r \in ProviderRequests, NEW i, NEW policy, Child!Reserves(r, i, policy), NEW d
  PROVE  Child!Owned(owners, d)' = IF d = i THEN Child!Owned(owners, d) \cup {r} ELSE Child!Owned(owners, d)
BY DEF Child!Reserves, Child!Owned

\* A request of the parent itself is counted to no delegation.
LEMMA ChildParentRequestKeeps ==
  ASSUME ChildApart, ChildInv, NEW r \in ProviderRequests, Child!ParentRequest(r)
  PROVE  ChildInv' /\ ChildKept
<1>1. UNCHANGED <<childrenOpen, closing, childRecords, childEntries, childRun, fate, calls, childTold, usage>>
      /\ Child!Reserves(r, Parent, ParentGrant.budget)
  BY DEF Child!ParentRequest, Child!binding, Child!Reserves
<1>2. ChildPoolFits'
  BY <1>1, ChildLedgerIs DEF ChildInv, Child!Reserves
<1>3. ASSUME NEW d \in ChildDelegations
      PROVE  /\ ChildCeilingFits(d)'
             /\ (childEntries[d].phase = "none" => Child!Owned(owners, d)' = {})
             /\ (childEntries[d].receipt = "completed" => ChildWhole(d)')
  <2>1. Child!Owned(owners, d)' = Child!Owned(owners, d)
    BY <1>1, ChildReservesIs DEF ChildApart
  <2>2. ChildFits(d)
    BY DEF ChildInv
  <2> QED BY <1>1, <2>1, <2>2 DEF ChildFits, ChildCeilingFits, ChildRecordFits, ChildReceiptFits, ChildWhole
<1> QED BY <1>1, <1>2, <1>3, ChildOwnersKeep

\* A request of a child is counted to it, under its ceiling.
LEMMA ChildRequestKeeps ==
  ASSUME ChildApart, ChildInv, NEW d \in ChildDelegations, NEW r \in ProviderRequests, Child!ChildRequest(d, r)
  PROVE  ChildInv' /\ ChildKept
<1>1. UNCHANGED <<childrenOpen, closing, childRecords, childEntries, childRun, fate, calls, childTold, usage>>
      /\ Child!Reserves(r, d, childRecords[d].plan.request.budget)
  BY DEF Child!ChildRequest, Child!binding, Child!Reserves
<1>2. ChildPoolFits' /\ ChildPoolFits
  BY <1>1, ChildLedgerIs DEF ChildInv, Child!Reserves
<1>3. ChildFits(d) /\ childRun[d].at = "working"
  BY DEF ChildInv, Child!ChildRequest
<1>4. childRecords[d] = childEntries[d] /\ childEntries[d].phase = "dispatched" /\ childEntries[d].receipt = Nil /\ childEntries[d].plan \in Plans
  BY <1>3 DEF ChildFits, ChildRunFits, ChildRecordFits
<1>5. ChildCeilingFits(d)'
  <2> DEFINE budget == childEntries[d].plan.request.budget
             mine == Child!Owned(owners, d)
  <2>1. /\ Cardinality(mine) < budget.requests
        /\ budget.usd # Nil => (Cardinality(mine) + 1) * PoolPolicy.reservePerRequest <= budget.usd
    BY <1>1, <1>2, <1>4, ChildCounts DEF Child!Reserves, Child!UnderCeiling, ChildPoolFits
  <2>2. IsFiniteSet(mine)
    <3>1. mine \in SUBSET ProviderRequests
      BY DEF Child!Owned
    <3> QED BY <3>1, FS_Subset DEF ChildApart
  <2>3. Child!Owned(owners, d)' = mine \cup {r} /\ r \notin mine
    BY <1>1, ChildReservesIs DEF Child!Reserves, Child!Owned, Child!Dispatched
  <2>4. Cardinality(mine \cup {r}) = Cardinality(mine) + 1 /\ Cardinality(mine) \in Nat
    BY <2>2, <2>3, FS_AddElement, FS_CardinalityType
  <2>5. budget.requests \in Nat
    BY <1>4 DEF ChildApart
  <2>6. Cardinality(Child!Owned(owners, d)') = Cardinality(mine) + 1
    BY <2>3, <2>4
  <2>7. Cardinality(mine) + 1 <= budget.requests
    BY <2>1, <2>4, <2>5
  <2> QED BY <1>1, <2>1, <2>6, <2>7 DEF ChildCeilingFits
<1>6. ASSUME NEW e \in ChildDelegations
      PROVE  /\ ChildCeilingFits(e)'
             /\ (childEntries[e].phase = "none" => Child!Owned(owners, e)' = {})
             /\ (childEntries[e].receipt = "completed" => ChildWhole(e)')
  <2>1. CASE e = d
    BY <1>4, <1>5, <2>1 DEF ChildApart, Child!Terminal, ChildVerdicts
  <2>2. CASE e # d
    <3>1. Child!Owned(owners, e)' = Child!Owned(owners, e)
      BY <1>1, <2>2, ChildReservesIs
    <3>2. ChildFits(e)
      BY DEF ChildInv
    <3> QED BY <1>1, <3>1, <3>2 DEF ChildFits, ChildCeilingFits, ChildRecordFits, ChildReceiptFits, ChildWhole
  <2> QED BY <2>1, <2>2
<1> QED BY <1>1, <1>2, <1>6, ChildOwnersKeep

\* A complete row is never replaced.
LEMMA ChildUsageKeeps ==
  ASSUME ChildApart, ChildInv, NEW row \in ProviderRows, Child!UsageArrives(row)
  PROVE  ChildInv' /\ ChildKept
<1>1. UNCHANGED <<childrenOpen, closing, childRecords, childEntries, childRun, fate, calls, childTold, owners>> /\ Child!Record(row)
  BY DEF Child!UsageArrives, Child!binding, Child!Record
<1>2. ChildPoolFits'
  BY <1>1, ChildLedgerIs DEF ChildInv, Child!Record
<1>3. \A u \in usage : u.complete => u \in usage'
  BY <1>1 DEF Child!Record, Child!RowsWith
<1>4. ASSUME NEW d \in ChildDelegations
      PROVE  /\ ChildCeilingFits(d)'
             /\ (childEntries[d].phase = "none" => Child!Owned(owners, d)' = {})
             /\ (childEntries[d].receipt = "completed" => ChildWhole(d)')
  <2>1. Child!Owned(owners, d)' = Child!Owned(owners, d)
    BY <1>1 DEF Child!Owned
  <2>2. ChildFits(d)
    BY DEF ChildInv
  <2>3. ASSUME childEntries[d].receipt = "completed" PROVE ChildWhole(d)'
    <3>1. ChildWhole(d)
      BY <2>2, <2>3 DEF ChildFits, ChildReceiptFits
    <3> QED BY <1>1, <1>3, <2>1, <3>1 DEF ChildWhole
  <2> QED BY <1>1, <2>1, <2>2, <2>3 DEF ChildFits, ChildCeilingFits, ChildRecordFits
<1> QED BY <1>1, <1>2, <1>4, ChildOwnersKeep

\* The parent's life ends for every run at once.
LEMMA ChildCloseKeeps ==
  ASSUME ChildInv, Child!Close
  PROVE  ChildInv' /\ ChildKept
<1>1. UNCHANGED <<ledger, owners, usage, childRecords, childEntries, fate, calls, childTold>> /\ childrenOpen' = FALSE /\ closing' = "awaiting"
  BY DEF Child!Close, Child!pool
<1>2. ASSUME NEW d \in ChildDelegations
      PROVE  /\ childRun'[d] \in ChildRuns
             /\ childRun'[d] = childRun[d] \/ (/\ childRun[d].at \in {"creating", "working"} /\ childRun'[d].at = childRun[d].at
                                               /\ childRun'[d].interrupted /\ childRun'[d].dispatched = childRun[d].dispatched
                                               /\ childRun'[d].step = childRun[d].step)
  <2>1. childRun[d] \in ChildRuns
    BY DEF ChildInv, ChildTypes
  <2>2. PICK r \in ChildRuns : r = [childRun[d] EXCEPT !.interrupted = TRUE]
    BY <2>1 DEF ChildRuns
  <2>3. r.at = childRun[d].at /\ r.interrupted /\ r.dispatched = childRun[d].dispatched /\ r.step = childRun[d].step
    BY <2>1, <2>2 DEF ChildRuns
  <2>4. childRun'[d] = IF childRun[d].at \in {"creating", "working"} THEN r ELSE childRun[d]
    BY <2>2 DEF Child!Close
  <2> QED BY <2>1, <2>3, <2>4
<1>3. childRun' \in [ChildDelegations -> ChildRuns]
  <2>1. childRun' = [d \in ChildDelegations |-> childRun'[d]]
    BY DEF Child!Close
  <2> QED BY <1>2, <2>1
<1>4. ChildTypes' /\ ChildPoolFits' /\ ChildClosingFits'
  BY <1>1, <1>3 DEF ChildInv, ChildTypes, ChildPoolFits, ChildClosingFits
<1>5. ASSUME NEW d \in ChildDelegations PROVE ChildFits(d)'
  <2>1. ChildFits(d)
    BY DEF ChildInv
  <2>2. Child!Owned(owners, d)' = Child!Owned(owners, d)
    BY <1>1 DEF Child!Owned
  <2>3. ChildRecordFits(d)' /\ ChildReceiptFits(d)'
    BY <1>1, <1>2, <2>1, <2>2 DEF ChildFits, ChildRecordFits, ChildReceiptFits, ChildUntouched, ChildWhole
  <2>4. ChildCallsFit(d)' /\ ChildCeilingFits(d)'
    BY <1>1, <2>1, <2>2 DEF ChildFits, ChildCallsFit, ChildCeilingFits
  <2>5. ChildRunFits(d)'
    BY <1>1, <1>2, <2>1 DEF ChildFits, ChildRunFits, ChildUntouched
  <2> QED BY <2>3, <2>4, <2>5 DEF ChildFits
<1> QED BY <1>1, <1>4, <1>5, ChildQuietKeeps DEF ChildInv

\* A lost process takes the memory and leaves the file.
LEMMA ChildCrashKeeps ==
  ASSUME ChildApart, ChildInv, Child!Crash
  PROVE  ChildInv' /\ ChildKept
<1>1. /\ UNCHANGED <<ledger, owners, usage, childEntries, calls, childTold>> /\ childrenOpen' = TRUE /\ closing' = "no"
      /\ childRecords' = childEntries /\ childRun' = [d \in ChildDelegations |-> Child!Idle]
  BY DEF Child!Crash, Child!pool
<1>2. ASSUME NEW d \in ChildDelegations
      PROVE  /\ fate'[d] \in [Child!Steps -> ChildFates]
             /\ \A k \in Child!Steps : /\ fate'[d][k] # "running" /\ (fate'[d][k] = "none" <=> fate[d][k] = "none")
                                       /\ fate[d][k] # "running" => fate'[d][k] = fate[d][k]
  <2>1. fate[d] \in [Child!Steps -> ChildFates]
    BY DEF ChildInv, ChildTypes
  <2>2. PICK g : g = [k \in Child!Steps |-> IF fate[d][k] = "running" THEN "lost" ELSE fate[d][k]]
    OBVIOUS
  <2>3. fate'[d] = g
    BY <2>2 DEF Child!Crash
  <2> QED BY <2>1, <2>2, <2>3, ChildLostIs
<1>3. fate' \in [ChildDelegations -> [Child!Steps -> ChildFates]]
  <2>1. fate' = [d \in ChildDelegations |-> fate'[d]]
    BY DEF Child!Crash
  <2> QED BY <1>2, <2>1
<1>4. Child!Idle \in ChildRuns /\ Child!Idle.at = "rest"
  BY DEF Child!Idle, ChildRuns
<1>5. ChildTypes' /\ ChildPoolFits' /\ ChildClosingFits'
  BY <1>1, <1>3, <1>4 DEF ChildInv, ChildTypes, ChildPoolFits, ChildClosingFits
<1>6. ASSUME NEW d \in ChildDelegations PROVE ChildFits(d)'
  <2>1. ChildFits(d)
    BY DEF ChildInv
  <2>2. Child!Owned(owners, d)' = Child!Owned(owners, d)
    BY <1>1 DEF Child!Owned
  <2>3. childRun'[d] = Child!Idle /\ childRun'[d].at = "rest"
    BY <1>1, <1>4
  <2>4. ChildRecordFits(d)'
    BY <1>1, <1>2, <2>1, <2>2 DEF ChildFits, ChildRecordFits, ChildUntouched
  <2>5. ChildCallsFit(d)' /\ ChildCeilingFits(d)'
    BY <1>1, <1>2, <2>1, <2>2 DEF ChildFits, ChildCallsFit, ChildCeilingFits
  <2>6. ChildRunFits(d)'
    BY <1>2, <2>3 DEF ChildRunFits
  <2>7. childEntries[d].receipt = "completed" => ChildWhole(d)'
    <3> SUFFICES ASSUME childEntries[d].receipt = "completed" PROVE ChildWhole(d)'
      OBVIOUS
    <3>1. ChildWhole(d)
      BY <2>1 DEF ChildFits, ChildReceiptFits
    <3>2. childEntries[d].plan \in Plans
      BY <2>1 DEF ChildFits, ChildRecordFits, Child!NoRecord, ChildApart, ChildVerdicts, Child!Terminal
    <3>3. 1 .. childEntries[d].plan.effects \subseteq Child!Steps
      BY <3>2 DEF ChildApart, Child!Steps
    <3>4. \A k \in 1 .. childEntries[d].plan.effects : fate'[d][k] = "completed"
      BY <1>2, <3>1, <3>3 DEF ChildWhole
    <3> QED BY <1>1, <2>2, <3>1, <3>4 DEF ChildWhole
  <2>8. ChildReceiptFits(d)'
    <3>1. 1 \in Child!Steps
      BY DEF ChildApart, Child!Steps
    <3>2. fate[d][1] # "none" => fate'[d][1] # "none"
      BY <1>2, <3>1
    <3>3. ChildUntouched(d) => ChildUntouched(d)'
      BY <1>2 DEF ChildUntouched
    <3> QED BY <1>1, <2>1, <2>3, <2>7, <3>2, <3>3 DEF ChildFits, ChildReceiptFits
  <2> QED BY <2>4, <2>5, <2>6, <2>8 DEF ChildFits
<1> QED BY <1>1, <1>5, <1>6, ChildQuietKeeps DEF ChildInv

\* Steps that leave every delegation and the pool as they are.
LEMMA ChildStillKeeps ==
  ASSUME ChildInv, UNCHANGED <<childrenOpen, childRecords, childEntries, childRun, fate, calls, ledger, owners, usage, childTold>>,
         closing' = closing \/ (closing' = "closed" /\ closing = "awaiting" /\ Child!Pending = {})
  PROVE  ChildInv' /\ ChildKept
<1>1. ChildTypes' /\ ChildPoolFits' /\ ChildClosingFits'
  BY DEF ChildInv, ChildTypes, ChildPoolFits, ChildClosingFits, Child!Pending
<1>2. ASSUME NEW d \in ChildDelegations PROVE ChildFits(d)'
  BY ChildRestedKeeps DEF ChildInv, ChildRested
<1> QED BY <1>1, <1>2, ChildQuietKeeps DEF ChildInv

\* Every step keeps the invariant and every answer that was given.
LEMMA ChildNextKeeps ==
  ASSUME ChildApart, ChildInv, [Child!Next]_(Child!vars)
  PROVE  ChildInv' /\ ChildKept
<1>1. ASSUME NEW d \in ChildDelegations,
             \/ Child!Execute(d) \/ Child!PlanRefused(d) \/ Child!CreateFails(d) \/ Child!ChildReturns(d) \/ Child!InvokeFails(d)
             \/ Child!Cancel(d) \/ Child!Reconcile(d)
      PROVE  ChildInv' /\ ChildKept
  BY <1>1, ChildExecuteKeeps, ChildPlanRefusedKeeps, ChildCreateFailsKeeps, ChildReturnsKeeps,
     ChildInvokeFailsKeeps, ChildCancelKeeps,
     ChildReconcileKeeps
<1>2. ASSUME NEW d \in ChildDelegations,
             \/ \E p \in Plans : Child!Planned(d, p)
             \/ \E s \in Sessions : Child!Created(d, s)
             \/ \E o \in ChildOutcomes : Child!ChildSettles(d, o)
             \/ \E r \in ProviderRequests : Child!ChildRequest(d, r)
      PROVE  ChildInv' /\ ChildKept
  BY <1>2, ChildPlannedKeeps, ChildCreatedKeeps, ChildSettlesKeeps, ChildRequestKeeps
<1>3. CASE \E r \in ProviderRequests : Child!ParentRequest(r)
  BY <1>3, ChildParentRequestKeeps
<1>4. CASE \E row \in ProviderRows : Child!UsageArrives(row)
  BY <1>4, ChildUsageKeeps
<1>5. CASE Child!Close \/ Child!Crash
  BY <1>5, ChildCloseKeeps, ChildCrashKeeps
<1>6. CASE Child!Closed \/ Child!Tick \/ UNCHANGED Child!vars
  BY <1>6, ChildStillKeeps DEF Child!Closed, Child!Tick, Child!vars, Child!binding, Child!pool, Child!EveryRunReturned
<1> QED BY <1>1, <1>2, <1>3, <1>4, <1>5, <1>6 DEF Child!Next

\* Nothing is on record at first.
LEMMA ChildInitFits ==
  ASSUME ChildApart, Child!Init
  PROVE  ChildInv /\ ChildContract!Init
<1>1. Child!NoRecord \in ChildRecords /\ Child!NoRecord.phase = "none" /\ Child!NoRecord.receipt = Nil
  BY DEF Child!NoRecord, ChildRecords
<1>2. Child!Idle \in ChildRuns /\ Child!Idle.at = "rest" /\ 1 \in Child!Steps
  BY DEF Child!Idle, ChildRuns, ChildApart, Child!Steps
<1>3. /\ \A d \in ChildDelegations : childRecords[d] = Child!NoRecord /\ childEntries[d] = Child!NoRecord /\ childRun[d] = Child!Idle /\ childTold[d] = {}
      /\ \A d \in ChildDelegations : \A k \in Child!Steps : fate[d][k] = "none" /\ calls[d][k] = 0
      /\ \A d \in ChildDelegations : Child!Owned(owners, d) = {}
      /\ childrenOpen = TRUE /\ closing = "no"
  BY DEF Child!Init, Child!Owned
<1>4. ChildTypes
  BY <1>1, <1>2 DEF Child!Init, ChildTypes, ChildFates
<1>5. ChildPoolFits /\ ChildClosingFits
  BY <1>3 DEF Child!Init, ChildPoolFits, Child!Pool!OpenLedger, ChildClosingFits
<1>6. ASSUME NEW d \in ChildDelegations PROVE ChildFits(d)
  <2>1. ChildRecordFits(d) /\ ChildRunFits(d)
    BY <1>1, <1>2, <1>3 DEF ChildRecordFits, ChildRunFits, ChildUntouched
  <2>2. ChildCallsFit(d) /\ ChildCeilingFits(d)
    BY <1>3 DEF ChildCallsFit, ChildCeilingFits
  <2>3. ChildReceiptFits(d)
    BY <1>1, <1>3 DEF ChildReceiptFits, ChildApart, ChildVerdicts, Child!Terminal
  <2> QED BY <2>1, <2>2, <2>3 DEF ChildFits
<1>7. ChildContract!Init
  BY <1>2, <1>3 DEF Child!Init, ChildContract!Init
<1> QED BY <1>4, <1>5, <1>6, <1>7 DEF ChildInv

-----------------------------------------------------------------------------
(* Theorems.                                                                    *)

\* The invariant holds of every execution.
LEMMA ChildHolds == ChildApart /\ Child!Spec => [](ChildApart /\ ChildInv)
<1>1. ChildApart /\ Child!Init => ChildApart /\ ChildInv
  BY ChildInitFits
<1>2. ChildApart /\ ChildInv /\ [Child!Next]_(Child!vars) => (ChildApart /\ ChildInv)'
  BY ChildNextKeeps DEF ChildApart
<1> QED BY <1>1, <1>2, PTL DEF Child!Spec

\* No effect of a child is executed twice, whatever is repeated, raced or lost.
THEOREM ChildrenRunOnce == ChildApart /\ Child!Spec => []Child!ChildRunsOnce
<1>1. ChildInv => Child!ChildRunsOnce
  BY DEF ChildInv, ChildFits, ChildCallsFit, Child!ChildRunsOnce
<1> QED BY <1>1, ChildHolds, PTL

\* A delegation reported done did all of its plan, and every request of it has its complete row.
THEOREM ChildrenAreWholeAndPaid == ChildApart /\ Child!Spec => []Child!DoneIsWholeAndPaid
<1>1. ChildApart /\ ChildInv => Child!DoneIsWholeAndPaid
  <2> SUFFICES ASSUME ChildApart, ChildInv, NEW d \in ChildDelegations, "completed" \in childTold[d] PROVE ChildWhole(d)
    BY DEF Child!DoneIsWholeAndPaid, ChildWhole
  <2> QED BY DEF ChildInv, ChildFits, ChildReceiptFits
<1> QED BY <1>1, ChildHolds, PTL

\* A child stays under the ceiling of its grant, which is within its parent's.
THEOREM ChildrenStayUnderCeiling == ChildApart /\ Child!Spec => []Child!ChildStaysUnderCeiling
<1>1. ChildApart /\ ChildInv => Child!ChildStaysUnderCeiling
  <2> SUFFICES ASSUME ChildApart, ChildInv, NEW d \in ChildDelegations, Child!Owned(owners, d) # {}
               PROVE  LET budget == childEntries[d].plan.request.budget
                      IN /\ Cardinality(Child!Owned(owners, d)) <= budget.requests
                         /\ budget.usd # Nil =>
                              Cardinality(Child!Owned(owners, d)) * ledger.reservePerRequest <= budget.usd
                         /\ budget.requests <= ParentGrant.budget.requests
                         /\ Child!UsdWithin(ParentGrant.budget.usd, budget.usd)
    BY ChildCounts DEF Child!ChildStaysUnderCeiling
  <2>1. ChildFits(d) /\ ChildPoolFits
    BY DEF ChildInv
  <2>2. Child!BudgetWithin(childEntries[d].plan.request.budget, ParentGrant.budget)
    BY <2>1 DEF ChildFits, ChildRecordFits
  <2> QED BY <2>1, <2>2 DEF ChildFits, ChildCeilingFits, ChildPoolFits, Child!BudgetWithin
<1> QED BY <1>1, ChildHolds, PTL

\* Once close has returned no child works.
THEOREM ChildClosedStaysQuiet == ChildApart /\ Child!Spec => []Child!ClosedIsQuiet
<1>1. ChildInv => Child!ClosedIsQuiet
  BY DEF ChildInv, ChildClosingFits, Child!Pending, ChildFits, ChildRunFits, Child!ClosedIsQuiet
<1> QED BY <1>1, ChildHolds, PTL

\* The binding of a delegation keeps the promise of a host.
THEOREM ChildrenKeepThePromise == ChildApart /\ Child!Spec => ChildContract!Spec
<1>1. ChildApart /\ Child!Init => ChildContract!Init
  BY ChildInitFits
<1>2. ChildApart /\ ChildInv /\ [Child!Next]_(Child!vars) => [ChildContract!Next]_(ChildContract!vars)
  BY ChildNextKeeps DEF ChildKept
<1> QED BY <1>1, <1>2, ChildHolds, PTL DEF Child!Spec, ChildContract!Spec

-----------------------------------------------------------------------------
(* The binding of a DSH session.  The journal says "sent" before the host is       *)
(* called, so that whatever is still to begin, in this binding or in one that was         *)
(* uninstalled, is of an effect nobody was given; and what an execution missed stays        *)
(* visible in its entry until it is answered.                                                *)

(* The state.                                                                  *)

DshStates == {"ready", "sent", "unknown"} \cup Dsh!Terminal
DshJournals == [mode : {"none", "active", "paused"}, epoch : {0, 1}, at : [Dsh!Effects -> DshStates]]

DshKinds == {"completed", "error", "aborted"}
DshRuns ==
  [effect : Dsh!Effects, preSteps : Nat, missed : BOOLEAN, answers : Nat, ends : SUBSET DshKinds, last : DshKinds \cup {Nil}]

DshReceipts == [Dsh!Effects -> Dsh!Terminal \cup {"unknown", Nil}]
DshEntries ==
  [mine : BOOLEAN, fault : BOOLEAN, pauseError : BOOLEAN, disposed : BOOLEAN, busy : {"no", "queued", "step"},
   running : DshRuns \cup {Nil}, dispatched : SUBSET Dsh!Effects, receipts : DshReceipts]

DshOperations == [at : {"rest", "context", "native"}, effect : Dsh!Effects \cup {Nil}, stop : Dsh!Effects \cup {Nil}]
DshTurns == [phase : {"open", "request", "answered"}, abort : BOOLEAN]

\* Nil is nothing else, and a tool call is no turn.
DshApart ==
  /\ Nil \notin DshRuns \cup DshEntries \cup DshTurns \cup Dsh!Effects \cup Dsh!Terminal \cup {"unknown"}
  /\ Agents \cap Tools = {}

DshTypes ==
  /\ journal \in DshJournals /\ installed \in BOOLEAN /\ hooked \in BOOLEAN /\ agent \in BOOLEAN
  /\ entry \in DshEntries \cup {Nil} /\ op \in DshOperations /\ turn \in DshTurns \cup {Nil}
  /\ stray \subseteq Dsh!Effects /\ inbox \subseteq Agents /\ shaken \subseteq Dsh!Effects
  /\ given \in [Dsh!Effects -> {0, 1}] /\ readmitted \in {"yes", "no", "lapsed"}
  /\ dshTold \in [Dsh!Effects -> SUBSET (Dsh!Terminal \cup {"native-ack"})]

-----------------------------------------------------------------------------
(* The invariant.                                                              *)

\* An entry that was not disposed of is of the live agent; a faulty one has its journal paused
\* or says that it has not; a healthy one whose journal is active was admitted.
DshEntryFits ==
  entry # Nil =>
    /\ entry.disposed \/ (installed /\ entry.mine /\ agent)
    /\ entry.fault => journal.mode # "active" \/ entry.pauseError
    /\ Dsh!Healthy /\ journal.mode = "active" => readmitted # "no"

\* What is about to begin was sent and not given; what was given has no verdict while it runs.
DshOpFits ==
  /\ op.at # "rest" => entry # Nil /\ op.effect \in Dsh!Effects
  /\ op.stop # Nil => op.at = "native" /\ op.stop = op.effect /\ op.stop \in Agents
  /\ op.at = "context" => /\ given[op.effect] = 0 /\ op.effect \notin stray
                          /\ journal.at[op.effect] # "ready"
                          /\ turn = Nil \/ turn.phase # "answered"
  /\ op.at = "native" => given[op.effect] = 1 /\ dshTold[op.effect] \cap Dsh!Terminal = {}

\* What was given was sent, what was told was given, of what was shaken there is no verdict, and
\* only a turn is acknowledged to be stopped.
DshEffectsFit ==
  \A e \in Dsh!Effects :
    /\ journal.at[e] = "ready" => given[e] = 0 /\ e \notin stray
    /\ e \in stray => given[e] = 0
    /\ dshTold[e] # {} \/ e \in shaken => given[e] = 1
    /\ dshTold[e] \cap Dsh!Terminal # {} => e \notin shaken
    /\ "native-ack" \in dshTold[e] => e \in Agents /\ "completed" \notin dshTold[e]
    /\ entry # Nil /\ entry.receipts[e] \in Dsh!Terminal => dshTold[e] \cap Dsh!Terminal = {entry.receipts[e]}

\* An execution that was shaken shows it, and one that was stopped ended so: a turn that ends
\* was answered, and a second end took a second answer.
DshRunFits ==
  Dsh!Running =>
    LET r == entry.running
    IN /\ op.at = "native" /\ r.effect = op.effect
       /\ r.effect \in shaken => entry.fault \/ entry.disposed \/ r.missed
       /\ r.missed => ~Dsh!Watched
       /\ "native-ack" \in dshTold[r.effect] => "aborted" \in r.ends
       /\ r.answers <= 1 => r.ends \subseteq {r.last}
       /\ r.ends # {} => r.answers >= 1
       /\ turn # Nil /\ turn.phase = "answered" => r.answers >= 1 /\ (r.ends # {} => r.answers >= 2)

DshInv == DshTypes /\ DshEntryFits /\ DshOpFits /\ DshEffectsFit /\ DshRunFits

-----------------------------------------------------------------------------
(* Steps.                                                                      *)

\* A step of the promise, or none of its own.
DshKept == DshContract!Next \/ UNCHANGED DshContract!vars

\* An answer that is so, and contradicts none before it, is a step of the promise.
LEMMA DshAnswerKeeps ==
  ASSUME DshTypes, NEW e \in Dsh!Effects, NEW v \in Dsh!Terminal \cup {"native-ack"},
         dshTold' = [dshTold EXCEPT ![e] = @ \cup {v}], UNCHANGED given, given[e] = 1,
         v \in Dsh!Terminal => dshTold[e] \cap Dsh!Terminal \subseteq {v}
  PROVE  DshKept
<1>1. CASE v \in dshTold[e]
  BY <1>1 DEF DshKept, DshContract!vars, DshTypes
<1>2. CASE v \notin dshTold[e]
  <2>1. v \in dshTold'[e] \ dshTold[e]
    BY <1>2 DEF DshTypes
  <2>2. dshTold[e] \cap {"not-executed"} = {}
    BY DEF DshTypes, Dsh!Terminal
  <2>3. DshContract!Answer(e, v)
    BY <2>2
    DEF DshContract!Answer, DshContract!Verdicts, DshContract!Outcomes, DshContract!Revocable, Dsh!Terminal
  <2> QED BY <2>1, <2>3 DEF DshKept, DshContract!Next
<1> QED BY <1>1, <1>2

\* What two states of an execution have in common that says what it missed and how it ended.
DshSame(r, q) ==
  /\ r.effect = q.effect /\ r.missed = q.missed /\ r.answers = q.answers /\ r.ends = q.ends /\ r.last = q.last

\* A stop keeps the entry but for its fault, and pauses the journal or says that it did not.
LEMMA DshStopsIs ==
  ASSUME journal \in DshJournals, NEW x \in DshEntries, Dsh!Stops(x)
  PROVE  /\ journal' \in DshJournals /\ journal'.at = journal.at
         /\ entry' \in DshEntries /\ entry'.fault
         /\ entry'.mine = x.mine /\ entry'.disposed = x.disposed
         /\ entry'.running = x.running /\ entry'.receipts = x.receipts
         /\ journal'.mode # "active" \/ entry'.pauseError
         /\ Dsh!Shakes
<1>1. journal' \in DshJournals /\ journal'.at = journal.at /\ (journal'.mode = "active" => journal.mode = "active")
  BY DEF Dsh!Stops, Dsh!Paused, DshJournals
<1>2. PICK p \in BOOLEAN : /\ p = (x.pauseError \/ (journal.mode = "active" /\ journal'.mode = "active"))
                           /\ entry' = [x EXCEPT !.fault = TRUE, !.pauseError = p]
  BY DEF Dsh!Stops, Dsh!Stopped, DshEntries
<1>3. /\ entry' \in DshEntries /\ entry'.fault /\ entry'.pauseError = p
      /\ entry'.mine = x.mine /\ entry'.disposed = x.disposed
      /\ entry'.running = x.running /\ entry'.receipts = x.receipts
  BY <1>2 DEF DshEntries
<1> QED BY <1>1, <1>2, <1>3 DEF Dsh!Stops

\* A session that is stopped may go on, end its operation, or lose its turn, its hooks or its agent.
LEMMA DshStopKeeps ==
  ASSUME DshApart, DshInv, entry # Nil, NEW x \in DshEntries, Dsh!Stops(x), x.receipts = entry.receipts,
         x.running = Nil \/ (Dsh!Running /\ x.running # Nil /\ DshSame(x.running, entry.running)),
         op' = op \/ (op' = Dsh!Resting /\ x.running = Nil),
         turn' \in {turn, Nil}, inbox' \subseteq inbox, UNCHANGED <<stray, given, dshTold>>,
         installed' \in BOOLEAN, hooked' \in BOOLEAN, agent' \in BOOLEAN, readmitted' \in {readmitted, "no"},
         hooked' => hooked, x.mine => entry.mine,
         x.disposed \/ (installed' /\ x.mine /\ agent')
  PROVE  DshInv' /\ DshKept /\ Dsh!OnlyReadmittedStarts
<1>1. /\ journal' \in DshJournals /\ journal'.at = journal.at /\ entry' \in DshEntries /\ entry' # Nil /\ entry'.fault
      /\ entry'.mine = x.mine /\ entry'.disposed = x.disposed
      /\ entry'.running = x.running /\ entry'.receipts = x.receipts
      /\ journal'.mode # "active" \/ entry'.pauseError
  BY DshStopsIs DEF DshInv, DshTypes, DshApart
<1>2. Dsh!Running => /\ op.at = "native" /\ entry.running.effect = op.effect /\ op.effect \in Dsh!Effects
                     /\ given[op.effect] = 1 /\ dshTold[op.effect] \cap Dsh!Terminal = {}
  BY DEF DshInv, DshRunFits, DshOpFits
<1>3. shaken' = shaken \cup (IF Dsh!Running THEN {op.effect} ELSE {})
  BY <1>2 DEF Dsh!Stops, Dsh!Shakes
<1>4. DshTypes'
  BY <1>1, <1>2, <1>3 DEF DshInv, DshTypes, DshOperations, Dsh!Resting
<1>5. DshEntryFits'
  BY <1>1 DEF DshEntryFits, Dsh!Healthy
<1>6. DshOpFits'
  <2>1. CASE op' = Dsh!Resting
    BY <2>1 DEF DshOpFits, Dsh!Resting
  <2>2. CASE op' = op
    BY <1>1, <2>2 DEF DshInv, DshOpFits
  <2> QED BY <2>1, <2>2
<1>7. DshEffectsFit'
  BY <1>1, <1>2, <1>3 DEF DshInv, DshTypes, DshEffectsFit
<1>8. DshRunFits'
  <2>1. CASE x.running = Nil
    BY <1>1, <2>1 DEF DshRunFits, Dsh!Running
  <2>2. CASE x.running # Nil
    <3>1. Dsh!Running /\ DshSame(entry'.running, entry.running) /\ op' = op
      BY <1>1, <2>2 DEF Dsh!Resting, DshApart
    <3>2. Dsh!Watched' => Dsh!Watched
      BY <1>1 DEF Dsh!Watched
    <3> QED BY <1>1, <3>1, <3>2 DEF DshInv, DshRunFits, DshSame
  <2> QED BY <2>1, <2>2
<1>9. DshKept
  BY DEF DshKept, DshContract!vars
<1>10. Dsh!OnlyReadmittedStarts
  BY <1>1 DEF Dsh!OnlyReadmittedStarts
<1> QED BY <1>4, <1>5, <1>6, <1>7, <1>8, <1>9, <1>10 DEF DshInv

\* An operation that fails ends.
LEMMA DshFailsKeeps ==
  ASSUME DshApart, DshInv, entry # Nil, Dsh!Fails, UNCHANGED <<Dsh!plugin, stray, Dsh!native, given, readmitted, dshTold>>
  PROVE  DshInv' /\ DshKept /\ Dsh!OnlyReadmittedStarts
<1>1. entry \in DshEntries
  BY DEF DshInv, DshTypes
<1>2. PICK x : x = [entry EXCEPT !.busy = "no", !.running = Nil]
  OBVIOUS
<1>3. /\ x \in DshEntries /\ x.receipts = entry.receipts /\ x.running = Nil /\ x.mine = entry.mine
      /\ x.disposed = entry.disposed
  BY <1>1, <1>2 DEF DshEntries
<1>4. Dsh!Stops(x) /\ op' = Dsh!Resting
  BY <1>2 DEF Dsh!Fails
<1> QED BY <1>3, <1>4, DshStopKeeps DEF DshInv, DshTypes, DshEntryFits, Dsh!plugin, Dsh!native

\* An entry that takes the place of another begins with nothing.
DshFresh(x) ==
  /\ x \in DshEntries /\ x.mine /\ ~x.disposed /\ x.running = Nil /\ x.receipts = [e \in Dsh!Effects |-> Nil]

\* A new entry carries nothing of an earlier one.
LEMMA DshNewEntryIs == DshApart => DshFresh(Dsh!NewEntry) /\ ~Dsh!NewEntry.fault
<1> SUFFICES ASSUME DshApart PROVE DshFresh(Dsh!NewEntry) /\ ~Dsh!NewEntry.fault
  OBVIOUS
<1>1. [e \in Dsh!Effects |-> Nil] \in DshReceipts
  BY DEF DshReceipts
<1> QED BY <1>1 DEF Dsh!NewEntry, DshFresh, DshEntries

\* What the old entry was about to begin it still may.
LEMMA DshReplaceKeeps ==
  ASSUME DshApart, DshInv, Dsh!Replaced, entry' = Nil \/ (DshFresh(entry') /\ installed' /\ agent'),
         journal' \in DshJournals, journal'.at = journal.at,
         entry' # Nil /\ journal'.mode = "active" =>
           IF entry'.fault THEN entry'.pauseError ELSE readmitted' # "no",
         installed' \in BOOLEAN, hooked' \in BOOLEAN, agent' \in BOOLEAN, readmitted' \in {"yes", "no", "lapsed"},
         UNCHANGED <<Dsh!native, given, dshTold, shaken>>
  PROVE  DshInv' /\ DshKept /\ Dsh!OnlyReadmittedStarts
<1>1. op' = Dsh!Resting /\ stray' = IF op.at = "context" THEN stray \cup {op.effect} ELSE stray
  BY DEF Dsh!Replaced
<1>2. op.at = "context" => op.effect \in Dsh!Effects /\ given[op.effect] = 0 /\ journal.at[op.effect] # "ready"
  BY DEF DshInv, DshOpFits
<1>3. DshTypes'
  BY <1>1, <1>2 DEF DshInv, DshTypes, DshOperations, Dsh!Resting, DshFresh, Dsh!native
<1>4. DshEntryFits'
  BY DEF DshEntryFits, DshFresh, Dsh!Healthy
<1>5. DshOpFits'
  BY <1>1 DEF DshOpFits, Dsh!Resting
<1>6. DshEffectsFit'
  <2>1. \A e \in Dsh!Effects : entry' # Nil => entry'.receipts[e] = Nil
    BY DEF DshFresh
  <2>2. Nil \notin Dsh!Terminal
    BY DEF DshApart
  <2> QED BY <1>1, <1>2, <2>1, <2>2 DEF DshInv, DshEffectsFit
<1>7. DshRunFits'
  BY DEF DshRunFits, Dsh!Running, DshFresh
<1>8. DshKept
  BY DEF DshKept, DshContract!vars
<1>9. Dsh!OnlyReadmittedStarts
  BY DEF Dsh!OnlyReadmittedStarts
<1> QED BY <1>3, <1>4, <1>5, <1>6, <1>7, <1>8, <1>9 DEF DshInv

\* A verdict is only told of an execution nothing shook, and of none that was stopped that it
\* completed.
LEMMA DshReceivesKeeps ==
  ASSUME DshApart, DshInv, NEW surprise \in BOOLEAN, NEW ending \in Dsh!Terminal \cup {"unknown"}, Dsh!Receives(surprise, ending),
         op.at = "native", Dsh!Running, surprise \/ ~entry.running.missed,
         ~surprise /\ ending = "completed" => "native-ack" \notin dshTold[op.effect],
         UNCHANGED <<Dsh!plugin, stray, Dsh!native, given, readmitted>>
  PROVE  DshInv' /\ DshKept /\ Dsh!OnlyReadmittedStarts
<1>1. /\ entry \in DshEntries /\ entry # Nil /\ journal \in DshJournals
  BY DEF DshInv, DshTypes, Dsh!Running
<1>2. PICK e \in Dsh!Effects : /\ e = op.effect /\ e = entry.running.effect /\ given[e] = 1 /\ dshTold[e] \cap Dsh!Terminal = {}
                               /\ journal.at[e] # "ready"
  BY DEF DshInv, DshOpFits, DshRunFits, DshEffectsFit
<1>3. PICK status \in Dsh!Terminal \cup {"unknown"} :
        status = IF surprise \/ entry.fault \/ entry.disposed THEN "unknown" ELSE ending
  OBVIOUS
<1>4. PICK kept, noted :
        /\ kept = [entry EXCEPT !.receipts[op.effect] = status, !.running = Nil, !.busy = "no"]
        /\ noted = [journal EXCEPT !.at[op.effect] = status]
  OBVIOUS
<1>5. /\ IF surprise THEN journal' \in {noted, Dsh!Paused(noted)} /\ entry' = Dsh!Stopped(kept) /\ Dsh!Shakes
         ELSE journal' = noted /\ entry' = kept /\ UNCHANGED shaken
      /\ dshTold' = [dshTold EXCEPT ![e] = @ \cup ({status} \ {"unknown"})]
      /\ op' = Dsh!Resting
  BY <1>2, <1>3, <1>4 DEF Dsh!Receives, Dsh!Answers
<1>6. PICK marked : marked = [entry.receipts EXCEPT ![e] = status]
  OBVIOUS
<1>7. /\ marked \in DshReceipts /\ marked[e] = status
      /\ \A d \in Dsh!Effects : d # e => marked[d] = entry.receipts[d]
  BY <1>1, <1>6 DEF DshEntries, DshReceipts
<1>8. /\ kept \in DshEntries /\ kept # Nil /\ kept.receipts = marked /\ kept.running = Nil
      /\ kept.mine = entry.mine /\ kept.disposed = entry.disposed /\ kept.fault = entry.fault
      /\ kept.pauseError = entry.pauseError
  <2>1. kept = [entry EXCEPT !.receipts = marked, !.running = Nil, !.busy = "no"]
    BY <1>1, <1>2, <1>4, <1>6 DEF DshEntries
  <2> QED BY <1>1, <1>7, <2>1 DEF DshEntries, DshApart
<1>9. PICK states : states = [journal.at EXCEPT ![e] = status]
  OBVIOUS
<1>10. /\ states \in [Dsh!Effects -> DshStates] /\ states[e] = status
       /\ \A d \in Dsh!Effects : d # e => states[d] = journal.at[d]
  BY <1>1, <1>9 DEF DshJournals, DshStates
<1>11. noted \in DshJournals /\ noted.at = states /\ noted.mode = journal.mode
  BY <1>1, <1>2, <1>4, <1>9, <1>10 DEF DshJournals
<1>12. /\ journal' \in DshJournals /\ journal'.at = states
       /\ journal'.mode = "active" => journal.mode = "active"
  BY <1>5, <1>11 DEF DshJournals, Dsh!Paused
<1>13. /\ entry' \in DshEntries /\ entry' # Nil /\ entry'.receipts = marked /\ entry'.running = Nil
       /\ entry'.mine = entry.mine /\ entry'.disposed = entry.disposed
       /\ IF surprise THEN entry'.fault /\ (journal'.mode # "active" \/ entry'.pauseError)
          ELSE entry'.fault = entry.fault /\ entry'.pauseError = entry.pauseError
  <2>1. CASE surprise
    <3>1. PICK p \in BOOLEAN : /\ p = (kept.pauseError \/ (journal.mode = "active" /\ journal'.mode = "active"))
                               /\ entry' = [kept EXCEPT !.fault = TRUE, !.pauseError = p]
      BY <1>5, <1>8, <2>1 DEF Dsh!Stopped, DshEntries
    <3>2. /\ entry' \in DshEntries /\ entry'.fault /\ entry'.pauseError = p /\ entry'.mine = kept.mine
          /\ entry'.disposed = kept.disposed /\ entry'.running = kept.running /\ entry'.receipts = kept.receipts
      BY <1>8, <3>1 DEF DshEntries
    <3> QED BY <1>8, <1>12, <2>1, <3>1, <3>2 DEF DshApart
  <2>2. CASE ~surprise
    BY <1>5, <1>8, <2>2
  <2> QED BY <2>1, <2>2
<1>14. /\ shaken \subseteq shaken' /\ shaken' \subseteq shaken \cup {e}
       /\ status \in Dsh!Terminal => e \notin shaken'
  <2>1. shaken' \in {shaken, shaken \cup {e}} /\ (~surprise => shaken' = shaken)
    BY <1>2, <1>5 DEF Dsh!Shakes
  <2>2. status \in Dsh!Terminal => ~surprise /\ ~entry.fault /\ ~entry.disposed
    BY <1>3 DEF Dsh!Terminal
  <2> QED BY <1>2, <2>1, <2>2 DEF DshInv, DshRunFits
<1>15. /\ dshTold' \in [Dsh!Effects -> SUBSET (Dsh!Terminal \cup {"native-ack"})]
       /\ dshTold'[e] = dshTold[e] \cup ({status} \ {"unknown"})
       /\ \A d \in Dsh!Effects : d # e => dshTold'[d] = dshTold[d]
  BY <1>5 DEF DshInv, DshTypes
<1>16. DshTypes'
  BY <1>2, <1>5, <1>12, <1>13, <1>14, <1>15 DEF DshInv, DshTypes, DshOperations, Dsh!Resting, Dsh!plugin, Dsh!native
<1>17. DshEntryFits'
  BY <1>1, <1>12, <1>13 DEF DshInv, DshEntryFits, Dsh!Healthy, Dsh!plugin
<1>18. DshOpFits'
  BY <1>5 DEF DshOpFits, Dsh!Resting
<1>19. DshEffectsFit'
  <2>1. ASSUME NEW d \in Dsh!Effects, d # e
        PROVE  /\ dshTold'[d] = dshTold[d] /\ (d \in shaken' <=> d \in shaken) /\ entry'.receipts[d] = entry.receipts[d]
               /\ journal'.at[d] = journal.at[d]
    BY <1>7, <1>10, <1>12, <1>13, <1>14, <1>15, <2>1
  <2>2. "completed" \in dshTold'[e] => "native-ack" \notin dshTold'[e]
    <3>1. status = "completed" => ending = "completed" /\ ~surprise
      BY <1>3
    <3>2. "completed" \in dshTold'[e] => status = "completed"
      BY <1>2, <1>15 DEF Dsh!Terminal
    <3> QED BY <1>2, <1>15, <3>1, <3>2
  <2>3. "native-ack" \in dshTold'[e] => e \in Agents
    BY <1>2, <1>15 DEF DshInv, DshEffectsFit, Dsh!Terminal
  <2>4. journal'.at[e] # "ready" /\ entry'.receipts[e] = status /\ dshTold'[e] \cap Dsh!Terminal = {status} \cap Dsh!Terminal
    BY <1>2, <1>7, <1>10, <1>12, <1>13, <1>15 DEF Dsh!Terminal
  <2>5. e \notin stray \/ given[e] = 0
    BY DEF DshInv, DshEffectsFit
  <2> QED BY <1>1, <1>2, <1>14, <2>1, <2>2, <2>3, <2>4, <2>5 DEF DshInv, DshEffectsFit
<1>20. DshRunFits'
  BY <1>13 DEF DshRunFits, Dsh!Running
<1>21. DshKept
  <2>1. CASE status = "unknown"
    BY <1>5, <2>1 DEF DshKept, DshContract!vars, DshInv, DshTypes
  <2>2. CASE status \in Dsh!Terminal
    <3>1. {status} \ {"unknown"} = {status}
      BY <2>2 DEF Dsh!Terminal
    <3> QED BY <1>2, <1>5, <2>2, <3>1, DshAnswerKeeps DEF DshInv
  <2> QED BY <2>1, <2>2
<1>22. Dsh!OnlyReadmittedStarts
  <2>1. "sent" \notin Dsh!Terminal \cup {"unknown"}
    BY DEF Dsh!Terminal
  <2> QED BY <1>10, <1>12, <2>1 DEF Dsh!OnlyReadmittedStarts
<1> QED BY <1>16, <1>17, <1>18, <1>19, <1>20, <1>21, <1>22 DEF DshInv

\* What an execution goes through is noted in its entry, or is missing there for good.
LEMMA DshNotesKeep ==
  ASSUME DshApart, DshInv, Dsh!Running, NEW q \in DshRuns, q.effect = entry.running.effect,
         entry' = [entry EXCEPT !.running = q],
         shaken' = shaken \/ (shaken' = shaken \cup {entry.running.effect} /\ q.missed),
         entry.running.missed => q.missed, q.missed => entry.running.missed \/ ~Dsh!Watched,
         entry.running.ends \subseteq q.ends, q.answers <= 1 => q.ends \subseteq {q.last}, q.ends # {} => q.answers >= 1,
         turn' \in DshTurns \cup {Nil},
         turn' # Nil /\ turn'.phase = "answered" => q.answers >= 1 /\ (q.ends # {} => q.answers >= 2),
         UNCHANGED <<journal, Dsh!plugin, op, stray, inbox, given, readmitted, dshTold>>
  PROVE  DshInv' /\ DshKept /\ Dsh!OnlyReadmittedStarts
<1>1. entry \in DshEntries /\ entry # Nil /\ Nil \notin DshEntries /\ Nil \notin DshRuns
  BY DEF DshInv, DshTypes, Dsh!Running, DshApart
<1>2. /\ entry' \in DshEntries /\ entry' # Nil /\ entry'.running = q /\ entry'.receipts = entry.receipts
      /\ entry'.mine = entry.mine /\ entry'.disposed = entry.disposed /\ entry'.fault = entry.fault
      /\ entry'.pauseError = entry.pauseError
  BY <1>1 DEF DshEntries
<1>3. /\ op.at = "native" /\ q.effect = op.effect /\ op.effect \in Dsh!Effects
      /\ given[op.effect] = 1 /\ dshTold[op.effect] \cap Dsh!Terminal = {}
  BY DEF DshInv, DshRunFits, DshOpFits
<1>4. DshTypes'
  BY <1>2, <1>3 DEF DshInv, DshTypes, Dsh!plugin
<1>5. DshEntryFits'
  BY <1>1, <1>2 DEF DshInv, DshEntryFits, Dsh!Healthy, Dsh!plugin
<1>6. DshOpFits'
  BY <1>2, <1>3 DEF DshInv, DshOpFits
<1>7. DshEffectsFit'
  BY <1>1, <1>2, <1>3 DEF DshInv, DshEffectsFit
<1>8. DshRunFits'
  <2>1. q.effect \in shaken' => entry'.fault \/ entry'.disposed \/ q.missed
    BY <1>2 DEF DshInv, DshRunFits
  <2>2. q.missed => ~Dsh!Watched'
    <3>1. Dsh!Watched' <=> Dsh!Watched
      BY <1>1, <1>2 DEF Dsh!Watched, Dsh!plugin
    <3> QED BY <3>1 DEF DshInv, DshRunFits
  <2>3. "native-ack" \in dshTold'[q.effect] => "aborted" \in q.ends
    BY DEF DshInv, DshRunFits
  <2> QED BY <1>2, <1>3, <2>1, <2>2, <2>3 DEF DshRunFits
<1>9. DshKept
  BY DEF DshKept, DshContract!vars
<1>10. Dsh!OnlyReadmittedStarts
  BY DEF Dsh!OnlyReadmittedStarts
<1> QED BY <1>4, <1>5, <1>6, <1>7, <1>8, <1>9, <1>10 DEF DshInv

\* A turn of the native session that no execution is in.
LEMMA DshTurnKeeps ==
  ASSUME DshApart, DshInv, turn' \in DshTurns \cup {Nil}, inbox' \subseteq Agents,
         turn' = Nil \/ turn'.phase # "answered" \/ (~Dsh!Running /\ op.at # "context"),
         UNCHANGED <<journal, Dsh!plugin, entry, op, stray, given, readmitted, dshTold, shaken>>
  PROVE  DshInv' /\ DshKept /\ Dsh!OnlyReadmittedStarts
<1>1. DshTypes'
  BY DEF DshInv, DshTypes, Dsh!plugin
<1>2. DshEntryFits'
  BY DEF DshInv, DshEntryFits, Dsh!Healthy, Dsh!plugin
<1>3. DshOpFits'
  BY DEF DshInv, DshOpFits
<1>4. DshEffectsFit'
  BY DEF DshInv, DshEffectsFit
<1>5. DshRunFits'
  BY DEF DshInv, DshRunFits, Dsh!Running, Dsh!Watched, Dsh!plugin
<1>6. DshKept
  BY DEF DshKept, DshContract!vars
<1>7. Dsh!OnlyReadmittedStarts
  BY DEF Dsh!OnlyReadmittedStarts
<1> QED BY <1>1, <1>2, <1>3, <1>4, <1>5, <1>6, <1>7 DEF DshInv

\* A prompt that is given begins its effect.
LEMMA DshGivenIs ==
  ASSUME DshTypes, NEW e \in Dsh!Effects, Dsh!Given(e), given[e] = 0, UNCHANGED dshTold
  PROVE  /\ given' \in [Dsh!Effects -> {0, 1}] /\ given'[e] = 1
         /\ \A d \in Dsh!Effects : d # e => given'[d] = given[d]
         /\ inbox' \subseteq Agents
         /\ DshKept
<1>1. given' = [given EXCEPT ![e] = 1]
  BY DEF Dsh!Given, DshTypes
<1>2. "not-executed" \notin dshTold[e]
  BY DEF DshTypes, Dsh!Terminal
<1>3. DshContract!Begin(e)
  BY <1>1, <1>2 DEF DshContract!Begin
<1> QED BY <1>1, <1>3 DEF Dsh!Given, DshTypes, DshKept, DshContract!Next

-----------------------------------------------------------------------------
(* The actions.                                                                *)

\* The session of a new agent is created, or opened paused.
LEMMA DshCreatedKeeps == ASSUME DshApart, DshInv, Dsh!AgentCreated PROVE DshInv' /\ DshKept /\ Dsh!OnlyReadmittedStarts
<1>1. CASE ~installed
  <2>1. UNCHANGED <<journal, installed, hooked, entry, op, stray, Dsh!native, given, readmitted, dshTold, shaken>> /\ agent'
    BY <1>1 DEF Dsh!AgentCreated
  <2>2. DshTypes'
    BY <2>1 DEF DshInv, DshTypes, Dsh!native
  <2>3. DshEntryFits'
    BY <2>1 DEF DshInv, DshEntryFits, Dsh!Healthy
  <2>4. DshOpFits' /\ DshEffectsFit' /\ DshRunFits'
    BY <2>1 DEF DshInv, DshOpFits, DshEffectsFit, DshRunFits, Dsh!Running, Dsh!Watched, Dsh!native
  <2> QED BY <2>1, <2>2, <2>3, <2>4 DEF DshInv, DshKept, DshContract!vars, Dsh!OnlyReadmittedStarts
<1>2. CASE installed
  <2>1. /\ Dsh!Replaced /\ installed' /\ agent' /\ hooked' = hooked
        /\ UNCHANGED <<Dsh!native, given, dshTold, shaken>>
    BY <1>2 DEF Dsh!AgentCreated
  <2>2. journal \in DshJournals /\ readmitted \in {"yes", "no", "lapsed"} /\ hooked \in BOOLEAN
    BY DEF DshInv, DshTypes
  <2>3. DshFresh(Dsh!NewEntry) /\ ~Dsh!NewEntry.fault
    BY DshNewEntryIs
  <2>4. CASE journal.mode = "none"
    <3>1. journal' = [journal EXCEPT !.mode = "active"] /\ entry' = Dsh!NewEntry /\ readmitted' = "yes"
      BY <1>2, <2>4 DEF Dsh!AgentCreated, Dsh!Creates
    <3>2. journal' \in DshJournals /\ journal'.at = journal.at
      BY <2>2, <3>1 DEF DshJournals
    <3> QED BY <2>1, <2>2, <2>3, <3>1, <3>2, DshReplaceKeeps
  <2>5. CASE journal.mode # "none" /\ entry' = Dsh!NewEntry /\ readmitted' = "lapsed" /\ UNCHANGED journal
    BY <2>1, <2>2, <2>3, <2>5, DshReplaceKeeps
  <2>6. CASE /\ journal.mode # "none" /\ journal' \in {journal, Dsh!Paused(journal)}
             /\ entry' = IF journal'.mode = "active" THEN Dsh!Stopped(Dsh!NewEntry) ELSE Dsh!NewEntry
             /\ UNCHANGED readmitted
    <3>1. journal' \in DshJournals /\ journal'.at = journal.at /\ (journal'.mode = "active" => journal.mode = "active")
      BY <2>2, <2>6 DEF DshJournals, Dsh!Paused
    <3>2. journal'.mode = "active" => DshFresh(entry') /\ entry'.fault /\ entry'.pauseError
      <4>1. ASSUME journal'.mode = "active"
            PROVE  entry' = [Dsh!NewEntry EXCEPT !.fault = TRUE, !.pauseError = TRUE]
        BY <2>6, <3>1, <4>1 DEF Dsh!Stopped, Dsh!NewEntry
      <4>2. DshFresh([Dsh!NewEntry EXCEPT !.fault = TRUE, !.pauseError = TRUE])
        BY <2>3 DEF DshFresh, DshEntries
      <4> QED BY <4>1, <4>2 DEF Dsh!NewEntry
    <3>3. journal'.mode # "active" => DshFresh(entry')
      BY <2>3, <2>6
    <3> QED BY <2>1, <2>2, <2>6, <3>1, <3>2, <3>3, DshReplaceKeeps
  <2> QED BY <1>2, <2>4, <2>5, <2>6 DEF Dsh!AgentCreated, Dsh!Opens
<1> QED BY <1>1, <1>2

\* What is installed attaches the agent it finds.
LEMMA DshInstallKeeps == ASSUME DshApart, DshInv, Dsh!Install PROVE DshInv' /\ DshKept /\ Dsh!OnlyReadmittedStarts
<1>1. /\ Dsh!Replaced /\ installed' /\ hooked' /\ agent' = agent /\ agent \in BOOLEAN
      /\ UNCHANGED <<Dsh!native, given, dshTold, shaken>>
      /\ journal \in DshJournals /\ readmitted \in {"yes", "no", "lapsed"}
  BY DEF Dsh!Install, DshInv, DshTypes
<1>2. installed' \in BOOLEAN /\ hooked' \in BOOLEAN
  BY DEF Dsh!Install
<1>3. DshFresh(Dsh!NewEntry) /\ ~Dsh!NewEntry.fault
  BY DshNewEntryIs
<1>4. CASE ~agent
  <2>1. entry' = Nil /\ UNCHANGED <<journal, readmitted>>
    BY <1>4 DEF Dsh!Install
  <2> QED BY <1>1, <1>2, <2>1, DshReplaceKeeps
<1>5. CASE agent /\ journal.mode = "none"
  <2>1. journal' = [journal EXCEPT !.mode = "active"] /\ entry' = Dsh!NewEntry /\ readmitted' = "yes"
    BY <1>5 DEF Dsh!Install, Dsh!Creates
  <2>2. journal' \in DshJournals /\ journal'.at = journal.at
    BY <1>1, <2>1 DEF DshJournals
  <2> QED BY <1>1, <1>2, <1>3, <1>5, <2>1, <2>2, DshReplaceKeeps
<1>6. CASE agent /\ journal.mode # "none"
  <2>1. entry' \in {Dsh!NewEntry, Nil} /\ readmitted' = "lapsed" /\ UNCHANGED journal
    BY <1>6 DEF Dsh!Install, Dsh!Creates
  <2> QED BY <1>1, <1>2, <1>3, <1>6, <2>1, DshReplaceKeeps
<1> QED BY <1>1, <1>4, <1>5, <1>6

\* A plugin that leaves stops its session.
LEMMA DshUninstallKeeps == ASSUME DshApart, DshInv, Dsh!Uninstall PROVE DshInv' /\ DshKept /\ Dsh!OnlyReadmittedStarts
<1>1. /\ installed' = FALSE /\ hooked' = FALSE /\ readmitted' = "no"
      /\ UNCHANGED <<agent, op, stray, Dsh!native, given, dshTold>>
  BY DEF Dsh!Uninstall
<1>2. CASE entry = Nil
  <2>1. entry' = Nil /\ UNCHANGED <<journal, shaken>>
    BY <1>2 DEF Dsh!Uninstall
  <2>2. DshTypes'
    BY <1>1, <1>2, <2>1 DEF DshInv, DshTypes, Dsh!native
  <2>3. DshEntryFits' /\ DshRunFits'
    BY <2>1 DEF DshEntryFits, DshRunFits, Dsh!Running
  <2>4. DshOpFits' /\ DshEffectsFit'
    BY <1>1, <1>2, <2>1 DEF DshInv, DshOpFits, DshEffectsFit, Dsh!native
  <2> QED BY <1>1, <2>1, <2>2, <2>3, <2>4 DEF DshInv, DshKept, DshContract!vars, Dsh!OnlyReadmittedStarts
<1>3. CASE entry # Nil
  <2>1. PICK x : x = [entry EXCEPT !.disposed = TRUE]
    OBVIOUS
  <2>2. entry \in DshEntries
    BY <1>3 DEF DshInv, DshTypes
  <2>3. /\ x \in DshEntries /\ x.receipts = entry.receipts /\ x.running = entry.running /\ x.mine = entry.mine /\ x.disposed
    BY <2>1, <2>2 DEF DshEntries
  <2>4. Dsh!Stops(x)
    BY <1>3, <2>1 DEF Dsh!Uninstall
  <2>5. x.running = Nil \/ (Dsh!Running /\ x.running # Nil /\ DshSame(x.running, entry.running))
    BY <1>3, <2>3 DEF Dsh!Running, DshSame
  <2>6. agent \in BOOLEAN
    BY DEF DshInv, DshTypes
  <2> QED BY <1>1, <1>3, <2>3, <2>4, <2>5, <2>6, DshStopKeeps DEF Dsh!native
<1> QED BY <1>2, <1>3

\* An agent that is disposed of loses its turn, and its session is stopped if the plugin sees it.
LEMMA DshDisposedKeeps == ASSUME DshApart, DshInv, Dsh!AgentDisposed PROVE DshInv' /\ DshKept /\ Dsh!OnlyReadmittedStarts
<1>1. /\ agent' = FALSE /\ readmitted' = "no" /\ turn' = Nil /\ inbox' = {}
      /\ UNCHANGED <<installed, hooked, op, stray, given, dshTold>>
      /\ installed \in BOOLEAN /\ hooked \in BOOLEAN
  BY DEF Dsh!AgentDisposed, DshInv, DshTypes
<1>2. CASE installed /\ entry # Nil
  <2>1. PICK x : x = [entry EXCEPT !.disposed = TRUE, !.mine = FALSE]
    OBVIOUS
  <2>2. entry \in DshEntries
    BY <1>2 DEF DshInv, DshTypes
  <2>3. /\ x \in DshEntries /\ x.receipts = entry.receipts /\ x.running = entry.running /\ ~x.mine /\ x.disposed
    BY <2>1, <2>2 DEF DshEntries
  <2>4. Dsh!Stops(x)
    BY <1>2, <2>1 DEF Dsh!AgentDisposed
  <2>5. x.running = Nil \/ (Dsh!Running /\ x.running # Nil /\ DshSame(x.running, entry.running))
    BY <1>2, <2>3 DEF Dsh!Running, DshSame
  <2> QED BY <1>1, <1>2, <2>3, <2>4, <2>5, DshStopKeeps
<1>3. CASE ~(installed /\ entry # Nil)
  <2>1. entry' = (IF entry = Nil THEN Nil ELSE [entry EXCEPT !.mine = FALSE]) /\ UNCHANGED <<journal, shaken>>
    BY <1>3 DEF Dsh!AgentDisposed
  <2>2. CASE entry = Nil
    <3>1. DshTypes'
      BY <1>1, <2>1, <2>2 DEF DshInv, DshTypes
    <3>2. DshEntryFits' /\ DshRunFits'
      BY <2>1, <2>2 DEF DshEntryFits, DshRunFits, Dsh!Running
    <3>3. DshOpFits' /\ DshEffectsFit'
      BY <1>1, <2>1, <2>2 DEF DshInv, DshOpFits, DshEffectsFit
    <3> QED BY <1>1, <2>1, <3>1, <3>2, <3>3 DEF DshInv, DshKept, DshContract!vars, Dsh!OnlyReadmittedStarts
  <2>3. CASE entry # Nil
    <3>1. entry \in DshEntries /\ entry.disposed /\ Nil \notin DshEntries
      BY <1>3, <2>3 DEF DshInv, DshTypes, DshEntryFits, DshApart
    <3>2. /\ entry' \in DshEntries /\ entry' # Nil /\ entry'.disposed /\ ~entry'.mine
          /\ entry'.fault = entry.fault /\ entry'.pauseError = entry.pauseError
          /\ entry'.running = entry.running /\ entry'.receipts = entry.receipts
      BY <2>1, <2>3, <3>1 DEF DshEntries
    <3>3. DshTypes'
      BY <1>1, <2>1, <3>2 DEF DshInv, DshTypes
    <3>4. DshEntryFits'
      BY <2>1, <2>3, <3>2 DEF DshInv, DshEntryFits, Dsh!Healthy
    <3>5. DshOpFits' /\ DshEffectsFit'
      BY <1>1, <2>1, <2>3, <3>2 DEF DshInv, DshOpFits, DshEffectsFit
    <3>6. DshRunFits'
      BY <1>1, <2>1, <2>3, <3>2 DEF DshInv, DshRunFits, Dsh!Running, Dsh!Watched
    <3> QED BY <1>1, <2>1, <3>3, <3>4, <3>5, <3>6 DEF DshInv, DshKept, DshContract!vars, Dsh!OnlyReadmittedStarts
  <2> QED BY <2>2, <2>3
<1> QED BY <1>2, <1>3

\* A lost process leaves the journal.
LEMMA DshCrashKeeps == ASSUME DshApart, DshInv, Dsh!Crash PROVE DshInv' /\ DshKept /\ Dsh!OnlyReadmittedStarts
<1>1. /\ entry' = Nil /\ op' = Dsh!Resting /\ stray' = {} /\ turn' = Nil /\ inbox' = {}
      /\ installed' = FALSE /\ hooked' = FALSE /\ agent' = FALSE /\ readmitted' = "no"
      /\ UNCHANGED <<journal, given, dshTold, shaken>>
  BY DEF Dsh!Crash
<1>2. DshTypes'
  BY <1>1 DEF DshInv, DshTypes, DshOperations, Dsh!Resting
<1>3. DshEntryFits' /\ DshOpFits' /\ DshRunFits'
  BY <1>1 DEF DshEntryFits, DshOpFits, DshRunFits, Dsh!Running, Dsh!Resting
<1>4. DshEffectsFit'
  BY <1>1 DEF DshInv, DshEffectsFit
<1> QED BY <1>1, <1>2, <1>3, <1>4 DEF DshInv, DshKept, DshContract!vars, Dsh!OnlyReadmittedStarts

\* Without its hooks a session goes on as it was.
LEMMA DshRemovedKeeps == ASSUME DshApart, DshInv, Dsh!HooksRemoved PROVE DshInv' /\ DshKept /\ Dsh!OnlyReadmittedStarts
<1>1. hooked' = FALSE /\ UNCHANGED <<journal, installed, agent, entry, op, stray, Dsh!native, Dsh!history>>
  BY DEF Dsh!HooksRemoved
<1>2. DshTypes'
  BY <1>1 DEF DshInv, DshTypes, Dsh!native, Dsh!history
<1>3. DshEntryFits' /\ DshOpFits' /\ DshEffectsFit'
  BY <1>1 DEF DshInv, DshEntryFits, Dsh!Healthy, DshOpFits, DshEffectsFit, Dsh!native, Dsh!history
<1>4. DshRunFits'
  BY <1>1 DEF DshInv, DshRunFits, Dsh!Running, Dsh!Watched, Dsh!native, Dsh!history
<1> QED BY <1>1, <1>2, <1>3, <1>4 DEF DshInv, DshKept, DshContract!vars, Dsh!OnlyReadmittedStarts, Dsh!history

\* What a hook throws stops the session.
LEMMA DshUnexpectedKeeps == ASSUME DshApart, DshInv, Dsh!Unexpected PROVE DshInv' /\ DshKept /\ Dsh!OnlyReadmittedStarts
<1>1. /\ entry # Nil /\ hooked /\ entry.mine /\ Dsh!Stops(entry)
      /\ UNCHANGED <<Dsh!plugin, op, stray, Dsh!native, given, readmitted, dshTold>>
  BY DEF Dsh!Unexpected, Dsh!Watched
<1>2. entry \in DshEntries /\ installed \in BOOLEAN /\ hooked \in BOOLEAN /\ agent \in BOOLEAN /\ (entry.disposed \/ (installed /\ agent))
  BY <1>1 DEF DshInv, DshTypes, DshEntryFits
<1>3. entry.running = Nil \/ (Dsh!Running /\ entry.running # Nil /\ DshSame(entry.running, entry.running))
  BY <1>1 DEF Dsh!Running, DshSame
<1> QED BY <1>1, <1>2, <1>3, DshStopKeeps DEF Dsh!plugin, Dsh!native

\* What is claimed was ready, of a healthy session that was admitted.
LEMMA DshClaimKeeps ==
  ASSUME DshApart, DshInv, NEW e \in Dsh!Effects, Dsh!Step(e), turn = Nil
  PROVE  DshInv' /\ DshKept /\ Dsh!OnlyReadmittedStarts
<1>1. /\ journal.mode = "active" /\ journal.at[e] = "ready"
      /\ journal' = [journal EXCEPT !.at[e] = "sent"]
      /\ op = Dsh!Resting /\ op' = [op EXCEPT !.at = "context", !.effect = e]
      /\ entry' = [entry EXCEPT !.busy = "step"]
      /\ Dsh!Healthy /\ UNCHANGED <<Dsh!plugin, stray, Dsh!native, given, readmitted, dshTold, shaken>>
  BY DEF Dsh!Step, Dsh!Claims
<1>2. entry \in DshEntries /\ entry # Nil /\ Nil \notin DshEntries /\ journal \in DshJournals
  BY <1>1 DEF DshInv, DshTypes, Dsh!Healthy, DshApart
<1>3. /\ entry' \in DshEntries /\ entry' # Nil /\ entry'.running = entry.running /\ entry'.receipts = entry.receipts
      /\ entry'.mine = entry.mine /\ entry'.disposed = entry.disposed /\ entry'.fault = entry.fault
      /\ entry'.pauseError = entry.pauseError
  BY <1>1, <1>2 DEF DshEntries
<1>4. /\ journal' \in DshJournals /\ journal'.mode = journal.mode /\ journal'.at[e] = "sent"
      /\ \A d \in Dsh!Effects : d # e => journal'.at[d] = journal.at[d]
  BY <1>1, <1>2 DEF DshJournals, DshStates
<1>5. op' = [at |-> "context", effect |-> e, stop |-> Nil]
  BY <1>1 DEF Dsh!Resting
<1>6. ~Dsh!Running
  BY <1>1 DEF DshInv, DshRunFits, Dsh!Resting
<1>7. DshTypes'
  BY <1>1, <1>3, <1>4, <1>5 DEF DshInv, DshTypes, DshOperations, Dsh!plugin, Dsh!native
<1>8. DshEntryFits'
  BY <1>1, <1>2, <1>3, <1>4 DEF DshInv, DshEntryFits, Dsh!Healthy, Dsh!plugin
<1>9. DshOpFits'
  <2>1. given[e] = 0 /\ e \notin stray
    BY <1>1 DEF DshInv, DshEffectsFit
  <2>2. turn' = Nil /\ given'[e] = 0 /\ e \notin stray'
    BY <1>1, <2>1 DEF Dsh!native
  <2>3. /\ op'.at = "context" /\ op'.effect = e /\ op'.stop = Nil
    BY <1>5
  <2> QED BY <1>3, <1>4, <2>2, <2>3 DEF DshOpFits
<1>10. DshEffectsFit'
  BY <1>1, <1>2, <1>3, <1>4 DEF DshInv, DshEffectsFit
<1>11. DshRunFits'
  BY <1>2, <1>3, <1>6 DEF DshRunFits, Dsh!Running
<1>12. Dsh!OnlyReadmittedStarts
  BY <1>1, <1>2 DEF DshInv, DshEntryFits, Dsh!OnlyReadmittedStarts
<1> QED BY <1>1, <1>7, <1>8, <1>9, <1>10, <1>11, <1>12 DEF DshInv, DshKept, DshContract!vars

\* A step claims an effect, or fails while a turn is open.
LEMMA DshStepKeeps ==
  ASSUME DshApart, DshInv, NEW e \in Dsh!Effects, Dsh!Step(e)
  PROVE  DshInv' /\ DshKept /\ Dsh!OnlyReadmittedStarts
<1>1. CASE turn = Nil
  BY <1>1, DshClaimKeeps
<1>2. CASE turn # Nil
  <2>1. entry # Nil /\ Dsh!Fails /\ UNCHANGED <<Dsh!plugin, stray, Dsh!native, given, readmitted, dshTold>>
    BY <1>2 DEF Dsh!Step, Dsh!Healthy
  <2> QED BY <2>1, DshFailsKeeps
<1> QED BY <1>1, <1>2

\* What is repeated hears what it heard.
LEMMA DshRepeatKeeps ==
  ASSUME DshApart, DshInv, NEW e \in Dsh!Effects, Dsh!Repeat(e)
  PROVE  DshInv' /\ DshKept /\ Dsh!OnlyReadmittedStarts
<1>1. UNCHANGED <<journal, Dsh!plugin, entry, op, stray, turn, inbox, given, readmitted, shaken>>
  BY DEF Dsh!Repeat, Dsh!Again
<1>2. entry # Nil /\ entry.receipts[e] \in Dsh!Terminal \cup {"unknown", Nil}
  BY DEF Dsh!Repeat, Dsh!Admitted, Dsh!Healthy, DshInv, DshTypes, DshEntries, DshReceipts
<1>3. PICK verdict \in Dsh!Terminal \cup {"unknown"} :
        /\ verdict = IF entry.receipts[e] = Nil THEN "unknown" ELSE entry.receipts[e]
        /\ dshTold' = [dshTold EXCEPT ![e] = @ \cup ({verdict} \ {"unknown"})]
  BY <1>2 DEF Dsh!Repeat, Dsh!Again, Dsh!Answers
<1>4. {verdict} \ {"unknown"} \subseteq dshTold[e]
  BY <1>2, <1>3 DEF DshInv, DshEffectsFit
<1>5. dshTold' = dshTold
  BY <1>3, <1>4 DEF DshInv, DshTypes
<1>6. DshEntryFits' /\ DshOpFits' /\ DshEffectsFit' /\ DshRunFits'
  BY <1>1, <1>5
  DEF DshInv, DshEntryFits, DshOpFits, DshEffectsFit, DshRunFits, Dsh!Healthy, Dsh!Running, Dsh!Watched, Dsh!plugin
<1>7. DshTypes'
  BY <1>1, <1>5 DEF DshInv, DshTypes, Dsh!plugin
<1> QED BY <1>1, <1>5, <1>6, <1>7 DEF DshInv, DshKept, DshContract!vars, Dsh!OnlyReadmittedStarts

\* What a binding that was uninstalled still begins is of nothing that began.
LEMMA DshStrayKeeps ==
  ASSUME DshApart, DshInv, NEW e \in Dsh!Effects, Dsh!StrayBegins(e)
  PROVE  DshInv' /\ DshKept /\ Dsh!OnlyReadmittedStarts
<1>1. /\ e \in stray /\ stray' = stray \ {e} /\ given[e] = 0
      /\ UNCHANGED <<journal, Dsh!plugin, entry, op, turn, readmitted, dshTold, shaken>>
  BY DEF Dsh!StrayBegins, DshInv, DshEffectsFit
<1>2. /\ given' \in [Dsh!Effects -> {0, 1}] /\ given'[e] \in {0, 1}
      /\ \A d \in Dsh!Effects : d # e => given'[d] = given[d]
      /\ inbox' \subseteq Agents /\ DshKept
  <2>1. CASE Dsh!Given(e)
    BY <1>1, <2>1, DshGivenIs DEF DshInv
  <2>2. CASE UNCHANGED <<given, inbox>>
    BY <1>1, <2>2 DEF DshInv, DshTypes, DshKept, DshContract!vars
  <2> QED BY <2>1, <2>2 DEF Dsh!StrayBegins
<1>3. DshTypes'
  BY <1>1, <1>2 DEF DshInv, DshTypes, Dsh!plugin
<1>4. DshEntryFits' /\ DshRunFits'
  BY <1>1 DEF DshInv, DshEntryFits, DshRunFits, Dsh!Healthy, Dsh!Running, Dsh!Watched, Dsh!plugin
<1>5. DshOpFits'
  BY <1>1, <1>2 DEF DshInv, DshOpFits
<1>6. DshEffectsFit'
  BY <1>1, <1>2 DEF DshInv, DshEffectsFit
<1> QED BY <1>1, <1>2, <1>3, <1>4, <1>5, <1>6 DEF DshInv, Dsh!OnlyReadmittedStarts

\* A step that is queued waits.
LEMMA DshContinueKeeps == ASSUME DshApart, DshInv, Dsh!Continue PROVE DshInv' /\ DshKept /\ Dsh!OnlyReadmittedStarts
<1>1. /\ entry # Nil /\ entry' = [entry EXCEPT !.busy = "queued"]
      /\ UNCHANGED <<journal, Dsh!plugin, op, stray, Dsh!native, Dsh!history>>
  BY DEF Dsh!Continue, Dsh!Healthy
<1>2. entry \in DshEntries /\ Nil \notin DshEntries
  BY <1>1 DEF DshInv, DshTypes, DshApart
<1>3. /\ entry' \in DshEntries /\ entry' # Nil /\ entry'.running = entry.running /\ entry'.receipts = entry.receipts
      /\ entry'.mine = entry.mine /\ entry'.disposed = entry.disposed /\ entry'.fault = entry.fault
      /\ entry'.pauseError = entry.pauseError
  BY <1>1, <1>2 DEF DshEntries
<1>4. DshTypes'
  BY <1>1, <1>3 DEF DshInv, DshTypes, Dsh!plugin, Dsh!native, Dsh!history
<1>5. DshEntryFits'
  BY <1>1, <1>3 DEF DshInv, DshEntryFits, Dsh!Healthy, Dsh!plugin, Dsh!history
<1>6. DshOpFits' /\ DshEffectsFit'
  BY <1>1, <1>3 DEF DshInv, DshOpFits, DshEffectsFit, Dsh!native, Dsh!history
<1>7. DshRunFits'
  BY <1>1, <1>3 DEF DshInv, DshRunFits, Dsh!Running, Dsh!Watched, Dsh!plugin, Dsh!native, Dsh!history
<1> QED BY <1>1, <1>4, <1>5, <1>6, <1>7 DEF DshInv, DshKept, DshContract!vars, Dsh!OnlyReadmittedStarts, Dsh!history

\* A host that refuses fails the operation.
LEMMA DshRefusesKeeps == ASSUME DshApart, DshInv, Dsh!HostRefuses PROVE DshInv' /\ DshKept /\ Dsh!OnlyReadmittedStarts
<1>1. entry # Nil /\ Dsh!Fails /\ UNCHANGED <<Dsh!plugin, stray, Dsh!native, given, readmitted, dshTold>>
  BY DEF Dsh!HostRefuses, DshInv, DshOpFits
<1> QED BY <1>1, DshFailsKeeps

\* So do counters that contradict each other.
LEMMA DshConflictKeeps == ASSUME DshApart, DshInv, Dsh!UsageConflicts PROVE DshInv' /\ DshKept /\ Dsh!OnlyReadmittedStarts
<1>1. entry # Nil /\ Dsh!Fails /\ UNCHANGED <<Dsh!plugin, stray, Dsh!native, given, readmitted, dshTold>>
  BY DEF Dsh!UsageConflicts, Dsh!Running
<1> QED BY <1>1, DshFailsKeeps

\* What begins was sent and not given; of an entry that stopped meanwhile it is shaken.
LEMMA DshBeginsKeeps == ASSUME DshApart, DshInv, Dsh!Begins PROVE DshInv' /\ DshKept /\ Dsh!OnlyReadmittedStarts
<1>1. PICK e \in Dsh!Effects : /\ e = op.effect /\ given[e] = 0 /\ e \notin stray /\ journal.at[e] # "ready"
                               /\ dshTold[e] = {} /\ e \notin shaken
  BY DEF Dsh!Begins, DshInv, DshOpFits, DshEffectsFit
<1>2. /\ op.at = "context" /\ entry # Nil /\ op.stop = Nil /\ (turn = Nil \/ turn.phase # "answered")
      /\ Dsh!Given(e) /\ op' = [op EXCEPT !.at = "native"]
      /\ shaken' = IF Dsh!Admitted THEN shaken ELSE shaken \cup {e}
      /\ UNCHANGED <<journal, Dsh!plugin, stray, turn, readmitted, dshTold>>
  BY <1>1 DEF Dsh!Begins, DshInv, DshOpFits
<1>3. entry \in DshEntries /\ Nil \notin DshEntries /\ Nil \notin DshRuns
  BY <1>2 DEF DshInv, DshTypes, DshApart
<1>4. Dsh!NewRun(e) \in DshRuns
  BY DEF Dsh!NewRun, DshRuns
<1>5. /\ entry' \in DshEntries /\ entry' # Nil /\ entry'.running = Dsh!NewRun(e) /\ entry'.receipts = entry.receipts
      /\ entry'.mine = entry.mine /\ entry'.disposed = entry.disposed /\ entry'.fault = entry.fault
      /\ entry'.pauseError = entry.pauseError
  <2>1. PICK begun : begun = entry.dispatched \cup {e}
    OBVIOUS
  <2>2. entry' = [entry EXCEPT !.running = Dsh!NewRun(e), !.dispatched = begun]
    BY <1>1, <1>3, <2>1 DEF Dsh!Begins, DshEntries
  <2>3. begun \in SUBSET Dsh!Effects
    BY <1>3, <2>1 DEF DshEntries
  <2> QED BY <1>3, <1>4, <2>2, <2>3 DEF DshEntries
<1>6. /\ given' \in [Dsh!Effects -> {0, 1}] /\ given'[e] = 1
      /\ \A d \in Dsh!Effects : d # e => given'[d] = given[d]
      /\ inbox' \subseteq Agents /\ DshKept
  BY <1>1, <1>2, DshGivenIs DEF DshInv
<1>7. op' = [at |-> "native", effect |-> e, stop |-> Nil]
  BY <1>1, <1>2 DEF DshInv, DshTypes, DshOperations
<1>8. DshTypes'
  BY <1>2, <1>5, <1>6, <1>7 DEF DshInv, DshTypes, DshOperations, Dsh!plugin
<1>9. DshEntryFits'
  BY <1>2, <1>5 DEF DshInv, DshEntryFits, Dsh!Healthy, Dsh!plugin
<1>10. DshOpFits'
  BY <1>1, <1>2, <1>5, <1>6, <1>7 DEF DshOpFits
<1>11. DshEffectsFit'
  BY <1>1, <1>2, <1>5, <1>6 DEF DshInv, DshEffectsFit
<1>12. DshRunFits'
  <2>1. e \in shaken' => entry.fault \/ entry.disposed
    BY <1>1, <1>2 DEF DshInv, DshEntryFits, Dsh!Admitted, Dsh!Healthy
  <2>2. entry'.running = [effect |-> e, preSteps |-> 0, missed |-> FALSE, answers |-> 0, ends |-> {}, last |-> Nil]
    BY <1>5 DEF Dsh!NewRun
  <2> QED BY <1>1, <1>2, <1>5, <1>7, <2>1, <2>2 DEF DshRunFits
<1>13. Dsh!OnlyReadmittedStarts
  BY <1>2 DEF Dsh!OnlyReadmittedStarts
<1> QED BY <1>6, <1>8, <1>9, <1>10, <1>11, <1>12, <1>13 DEF DshInv

\* A turn whose entry missed nothing says how it ended; one that was stopped ended so.
LEMMA DshReturnsKeeps == ASSUME DshApart, DshInv, Dsh!AgentReturns PROVE DshInv' /\ DshKept /\ Dsh!OnlyReadmittedStarts
<1>1. /\ op.at = "native" /\ Dsh!Running
      /\ Dsh!Receives(~Dsh!Covered \/ entry.running.answers > 1, Dsh!Ended(entry.running.last))
      /\ UNCHANGED <<Dsh!plugin, stray, Dsh!native, given, readmitted>>
  BY DEF Dsh!AgentReturns
<1>2. PICK surprise \in BOOLEAN : surprise = (~Dsh!Covered \/ entry.running.answers > 1)
  OBVIOUS
<1>3. PICK ending \in Dsh!Terminal \cup {"unknown"} : ending = Dsh!Ended(entry.running.last)
  BY DEF Dsh!Ended, Dsh!Terminal
<1>4. surprise \/ ~entry.running.missed
  BY <1>2 DEF Dsh!Covered
<1>5. ~surprise /\ ending = "completed" => "native-ack" \notin dshTold[op.effect]
  <2>1. SUFFICES ASSUME ~surprise, ending = "completed", "native-ack" \in dshTold[op.effect] PROVE FALSE
    OBVIOUS
  <2>2. entry.running \in DshRuns
    BY <1>1 DEF DshInv, DshTypes, DshEntries, Dsh!Running
  <2>3. ~(entry.running.answers > 1) /\ entry.running.answers \in Nat
    BY <1>2, <2>1, <2>2 DEF DshRuns
  <2>4. "aborted" \in {entry.running.last}
    BY <1>1, <2>1, <2>3 DEF DshInv, DshRunFits
  <2> QED BY <1>3, <2>1, <2>4 DEF Dsh!Ended
<1>6. Dsh!Receives(surprise, ending)
  BY <1>1, <1>2, <1>3
<1> QED BY <1>1, <1>4, <1>5, <1>6, DshReceivesKeeps

\* What the native session throws says nothing.
LEMMA DshThrowsKeeps == ASSUME DshApart, DshInv, Dsh!NativeThrows PROVE DshInv' /\ DshKept /\ Dsh!OnlyReadmittedStarts
BY DshReceivesKeeps DEF Dsh!NativeThrows

\* A tool that ran between its hooks says how it ended, and no tool is stopped.
LEMMA DshToolKeeps ==
  ASSUME DshApart, DshInv, NEW ending \in {"completed", "failed"}, Dsh!ToolReturns(ending)
  PROVE  DshInv' /\ DshKept /\ Dsh!OnlyReadmittedStarts
<1>1. /\ op.at = "native" /\ op.effect \in Tools /\ Dsh!Running /\ Dsh!Receives(~Dsh!Watched, ending)
      /\ UNCHANGED <<Dsh!plugin, stray, Dsh!native, given, readmitted>>
  BY DEF Dsh!ToolReturns
<1>2. PICK surprise \in BOOLEAN : surprise = ~Dsh!Watched
  OBVIOUS
<1>3. surprise \/ ~entry.running.missed
  BY <1>1, <1>2 DEF DshInv, DshRunFits
<1>4. "native-ack" \notin dshTold[op.effect]
  BY <1>1 DEF DshInv, DshEffectsFit, DshOpFits, DshApart
<1>5. ending \in Dsh!Terminal \cup {"unknown"} /\ Dsh!Receives(surprise, ending)
  BY <1>1, <1>2 DEF Dsh!Terminal
<1> QED BY <1>1, <1>3, <1>4, <1>5, DshReceivesKeeps

\* What the journal does not know is settled with what the entry does.
LEMMA DshReconcileKeeps == ASSUME DshApart, DshInv, Dsh!Reconcile PROVE DshInv' /\ DshKept /\ Dsh!OnlyReadmittedStarts
<1>1. PICK states : states = [e \in Dsh!Effects |->
        IF journal.at[e] \in {"sent", "unknown"} /\ entry.receipts[e] \in Dsh!Terminal THEN entry.receipts[e]
        ELSE journal.at[e]]
  OBVIOUS
<1>2. /\ journal' = [journal EXCEPT !.at = states] /\ journal \in DshJournals
      /\ UNCHANGED <<Dsh!plugin, entry, op, stray, Dsh!native, Dsh!history>>
  BY <1>1 DEF Dsh!Reconcile, DshInv, DshTypes, DshJournals
<1>3. states \in [Dsh!Effects -> DshStates]
  BY <1>1, <1>2 DEF DshJournals, DshStates
<1>4. "ready" \notin Dsh!Terminal /\ "sent" \notin Dsh!Terminal
  BY DEF Dsh!Terminal
<1>5. \A e \in Dsh!Effects : /\ states[e] = "ready" => journal.at[e] = "ready"
                             /\ journal.at[e] = "ready" => states[e] = "ready"
  BY <1>1, <1>4
<1>6. journal' \in DshJournals /\ journal'.mode = journal.mode /\ journal'.at = states
  BY <1>2, <1>3 DEF DshJournals
<1>7. DshTypes'
  BY <1>2, <1>6 DEF DshInv, DshTypes, Dsh!plugin, Dsh!native, Dsh!history
<1>8. DshEntryFits'
  BY <1>2, <1>6 DEF DshInv, DshEntryFits, Dsh!Healthy, Dsh!plugin, Dsh!history
<1>9. DshOpFits' /\ DshEffectsFit'
  BY <1>2, <1>5, <1>6 DEF DshInv, DshOpFits, DshEffectsFit, Dsh!native, Dsh!history
<1>10. DshRunFits'
  BY <1>2 DEF DshInv, DshRunFits, Dsh!Running, Dsh!Watched, Dsh!plugin, Dsh!native, Dsh!history
<1>11. Dsh!OnlyReadmittedStarts
  BY <1>5, <1>6 DEF Dsh!OnlyReadmittedStarts
<1> QED BY <1>2, <1>7, <1>8, <1>9, <1>10, <1>11 DEF DshInv, DshKept, DshContract!vars, Dsh!history

\* A pause starts nothing.
LEMMA DshPauseKeeps == ASSUME DshApart, DshInv, Dsh!Pause PROVE DshInv' /\ DshKept /\ Dsh!OnlyReadmittedStarts
<1>1. /\ journal' \in DshJournals /\ journal'.at = journal.at /\ journal'.mode # "active"
      /\ UNCHANGED <<Dsh!plugin, entry, op, stray, Dsh!native, Dsh!history>>
  BY DEF Dsh!Pause, Dsh!Paused, DshInv, DshTypes, DshJournals
<1>2. DshTypes'
  BY <1>1 DEF DshInv, DshTypes, Dsh!plugin, Dsh!native, Dsh!history
<1>3. DshEntryFits'
  BY <1>1 DEF DshInv, DshEntryFits, Dsh!Healthy, Dsh!plugin, Dsh!history
<1>4. DshOpFits' /\ DshEffectsFit'
  BY <1>1 DEF DshInv, DshOpFits, DshEffectsFit, Dsh!native, Dsh!history
<1>5. DshRunFits'
  BY <1>1 DEF DshInv, DshRunFits, Dsh!Running, Dsh!Watched, Dsh!plugin, Dsh!native, Dsh!history
<1> QED BY <1>1, <1>2, <1>3, <1>4, <1>5 DEF DshInv, DshKept, DshContract!vars, Dsh!OnlyReadmittedStarts, Dsh!history

\* A healthy session may be resumed.
LEMMA DshResumeKeeps == ASSUME DshApart, DshInv, Dsh!Resume PROVE DshInv' /\ DshKept /\ Dsh!OnlyReadmittedStarts
<1>1. /\ journal' \in DshJournals /\ journal'.at = journal.at /\ readmitted' = "yes"
      /\ entry # Nil /\ ~entry.fault
      /\ UNCHANGED <<Dsh!plugin, entry, op, stray, Dsh!native, given, dshTold, shaken>>
  BY DEF Dsh!Resume, Dsh!MayResume, Dsh!Healthy, DshInv, DshTypes, DshJournals
<1>2. DshTypes'
  BY <1>1 DEF DshInv, DshTypes, Dsh!plugin, Dsh!native
<1>3. DshEntryFits'
  BY <1>1 DEF DshInv, DshEntryFits, Dsh!plugin
<1>4. DshOpFits' /\ DshEffectsFit'
  BY <1>1 DEF DshInv, DshOpFits, DshEffectsFit, Dsh!native
<1>5. DshRunFits'
  BY <1>1 DEF DshInv, DshRunFits, Dsh!Running, Dsh!Watched, Dsh!plugin, Dsh!native
<1> QED BY <1>1, <1>2, <1>3, <1>4, <1>5 DEF DshInv, DshKept, DshContract!vars, Dsh!OnlyReadmittedStarts

\* Only a turn is asked to stop.
LEMMA DshCancelKeeps == ASSUME DshApart, DshInv, Dsh!Cancel PROVE DshInv' /\ DshKept /\ Dsh!OnlyReadmittedStarts
<1>1. /\ Dsh!Running /\ op.at = "native" /\ op.effect \in Agents /\ op.effect \in Dsh!Effects
      /\ op' = [op EXCEPT !.stop = op.effect]
      /\ turn' = IF turn = Nil THEN Nil ELSE [turn EXCEPT !.abort = TRUE]
      /\ UNCHANGED <<journal, Dsh!plugin, entry, stray, inbox, Dsh!history>>
  BY DEF Dsh!Cancel, DshInv, DshRunFits, Dsh!Effects
<1>2. op' \in DshOperations /\ op'.at = "native" /\ op'.effect = op.effect /\ op'.stop = op.effect
  BY <1>1 DEF DshInv, DshTypes, DshOperations
<1>3. turn' \in DshTurns \cup {Nil} /\ (turn' # Nil => turn # Nil /\ turn'.phase = turn.phase)
  BY <1>1 DEF DshInv, DshTypes, DshTurns
<1>4. DshTypes'
  BY <1>1, <1>2, <1>3 DEF DshInv, DshTypes, Dsh!plugin, Dsh!history
<1>5. DshEntryFits' /\ DshEffectsFit'
  BY <1>1 DEF DshInv, DshEntryFits, DshEffectsFit, Dsh!Healthy, Dsh!plugin, Dsh!history
<1>6. DshOpFits'
  BY <1>1, <1>2 DEF DshInv, DshOpFits, Dsh!history
<1>7. DshRunFits'
  BY <1>1, <1>2, <1>3 DEF DshInv, DshRunFits, Dsh!Watched, Dsh!plugin, Dsh!history
<1> QED BY <1>1, <1>4, <1>5, <1>6, <1>7 DEF DshInv, DshKept, DshContract!vars, Dsh!OnlyReadmittedStarts, Dsh!history

\* A stop is acknowledged of a turn that ended so.
LEMMA DshStopAnswerKeeps == ASSUME DshApart, DshInv, Dsh!CancelAnswers PROVE DshInv' /\ DshKept /\ Dsh!OnlyReadmittedStarts
<1>1. PICK e \in Dsh!Effects : /\ e = op.effect /\ e = op.stop /\ e = entry.running.effect /\ e \in Agents
                               /\ given[e] = 1 /\ dshTold[e] \cap Dsh!Terminal = {}
  BY DEF Dsh!CancelAnswers, DshInv, DshOpFits, DshRunFits
<1>2. /\ Dsh!Running /\ op.at = "native" /\ op' = [op EXCEPT !.stop = Nil]
      /\ UNCHANGED <<journal, Dsh!plugin, entry, stray, Dsh!native, given, readmitted, shaken>>
  BY <1>1 DEF Dsh!CancelAnswers, DshInv, DshOpFits
<1>3. op' \in DshOperations /\ op'.at = "native" /\ op'.effect = e /\ op'.stop = Nil
  BY <1>1, <1>2 DEF DshInv, DshTypes, DshOperations
<1>4. CASE Dsh!Aborted
  <2>1. dshTold' = [dshTold EXCEPT ![e] = @ \cup {"native-ack"}]
    <3>1. {"native-ack"} \ {"unknown"} = {"native-ack"}
      OBVIOUS
    <3> QED BY <1>1, <1>4, <3>1 DEF Dsh!CancelAnswers, Dsh!Answers
  <2>2. "native-ack" \notin Dsh!Terminal
    BY DEF Dsh!Terminal
  <2>3. /\ dshTold' \in [Dsh!Effects -> SUBSET (Dsh!Terminal \cup {"native-ack"})] /\ dshTold'[e] = dshTold[e] \cup {"native-ack"}
        /\ \A d \in Dsh!Effects : d # e => dshTold'[d] = dshTold[d]
    BY <2>1 DEF DshInv, DshTypes
  <2>4. dshTold'[e] \cap Dsh!Terminal = {} /\ "completed" \notin dshTold'[e]
    BY <1>1, <2>2, <2>3 DEF Dsh!Terminal
  <2>5. DshTypes'
    BY <1>2, <1>3, <2>3 DEF DshInv, DshTypes, Dsh!plugin, Dsh!native
  <2>6. DshEntryFits'
    BY <1>2 DEF DshInv, DshEntryFits, Dsh!Healthy, Dsh!plugin
  <2>7. DshOpFits'
    BY <1>1, <1>2, <1>3, <2>4 DEF DshInv, DshOpFits
  <2>8. DshEffectsFit'
    BY <1>1, <1>2, <2>3, <2>4 DEF DshInv, DshEffectsFit
  <2>9. DshRunFits'
    BY <1>1, <1>2, <1>3, <1>4 DEF DshInv, DshRunFits, Dsh!Watched, Dsh!Aborted, Dsh!plugin, Dsh!native
  <2>10. DshKept
    BY <1>1, <1>2, <2>1, <2>2, DshAnswerKeeps DEF DshInv
  <2> QED BY <1>2, <2>5, <2>6, <2>7, <2>8, <2>9, <2>10 DEF DshInv, Dsh!OnlyReadmittedStarts
<1>5. CASE ~Dsh!Aborted
  <2>1. dshTold' = dshTold
    BY <1>5 DEF Dsh!CancelAnswers
  <2>2. DshTypes'
    BY <1>2, <1>3, <2>1 DEF DshInv, DshTypes, Dsh!plugin, Dsh!native
  <2>3. DshEntryFits' /\ DshEffectsFit'
    BY <1>2, <2>1 DEF DshInv, DshEntryFits, DshEffectsFit, Dsh!Healthy, Dsh!plugin
  <2>4. DshOpFits'
    BY <1>1, <1>2, <1>3, <2>1 DEF DshInv, DshOpFits
  <2>5. DshRunFits'
    BY <1>1, <1>2, <1>3, <2>1 DEF DshInv, DshRunFits, Dsh!Watched, Dsh!plugin, Dsh!native
  <2> QED BY <1>2, <2>1, <2>2, <2>3, <2>4, <2>5 DEF DshInv, DshKept, DshContract!vars, Dsh!OnlyReadmittedStarts
<1> QED BY <1>4, <1>5

\* A turn starts, of a prompt or of the user.
LEMMA DshTurnStartsKeeps ==
  ASSUME DshApart, DshInv, NEW m \in Agents \cup {"user"}, Dsh!TurnStarts(m)
  PROVE  DshInv' /\ DshKept /\ Dsh!OnlyReadmittedStarts
<1>1. /\ turn' = [phase |-> "open", abort |-> FALSE] /\ inbox' = inbox \ {m}
      /\ UNCHANGED <<journal, Dsh!plugin, entry, op, stray, Dsh!history>>
  BY DEF Dsh!TurnStarts
<1>2. turn' \in DshTurns /\ turn'.phase # "answered" /\ inbox' \subseteq Agents
  BY <1>1 DEF DshInv, DshTypes, DshTurns
<1> QED BY <1>1, <1>2, DshTurnKeeps DEF Dsh!history

\* The first request of an execution is counted, a second one stops the session.
LEMMA DshPreStepKeeps == ASSUME DshApart, DshInv, Dsh!PreStep PROVE DshInv' /\ DshKept /\ Dsh!OnlyReadmittedStarts
<1>1. /\ turn # Nil /\ turn.phase = "open" /\ turn \in DshTurns
      /\ UNCHANGED <<Dsh!plugin, op, stray, inbox, given, readmitted, dshTold>> /\ inbox \subseteq Agents
  BY DEF Dsh!PreStep, DshInv, DshTypes
<1>2. [turn EXCEPT !.phase = "request"] \in DshTurns /\ [turn EXCEPT !.phase = "request"].phase # "answered"
  BY <1>1 DEF DshTurns
<1>3. CASE ~(Dsh!Watched /\ Dsh!Running)
  <2>1. turn' = [turn EXCEPT !.phase = "request"] /\ UNCHANGED <<journal, entry, shaken>>
    BY <1>3 DEF Dsh!PreStep
  <2> QED BY <1>1, <1>2, <2>1, DshTurnKeeps
<1>4. CASE Dsh!Watched /\ Dsh!Running
  <2>1. /\ entry \in DshEntries /\ entry.running \in DshRuns /\ Nil \notin DshRuns /\ entry # Nil
        /\ hooked /\ entry.mine /\ (entry.disposed \/ (installed /\ agent))
    BY <1>4 DEF DshInv, DshTypes, DshEntries, Dsh!Running, DshApart, Dsh!Watched, DshEntryFits
  <2>2. PICK q : q = [entry.running EXCEPT !.preSteps = @ + 1]
    OBVIOUS
  <2>3. q \in DshRuns /\ DshSame(q, entry.running)
    BY <2>1, <2>2 DEF DshRuns, DshSame
  <2>4. PICK counted : counted = [entry EXCEPT !.running = q]
    OBVIOUS
  <2>5. counted = [entry EXCEPT !.running.preSteps = @ + 1]
    BY <2>1, <2>2, <2>4 DEF DshEntries
  <2>6. CASE entry.running.preSteps = 0
    <3>1. entry' = counted /\ turn' = [turn EXCEPT !.phase = "request"] /\ UNCHANGED <<journal, shaken>>
      BY <1>4, <2>5, <2>6 DEF Dsh!PreStep
    <3>2. /\ q.effect = entry.running.effect /\ q.missed = entry.running.missed
          /\ q.ends = entry.running.ends /\ (q.answers <= 1 => q.ends \subseteq {q.last})
          /\ (q.ends # {} => q.answers >= 1)
      BY <1>4, <2>3 DEF DshSame, DshInv, DshRunFits
    <3> QED BY <1>1, <1>2, <1>4, <2>3, <2>4, <3>1, <3>2, DshNotesKeep
  <2>7. CASE entry.running.preSteps # 0
    <3>1. Dsh!Stops(counted) /\ turn' = Nil
      BY <1>4, <2>5, <2>7 DEF Dsh!PreStep
    <3>2. /\ counted \in DshEntries /\ counted.running = q /\ counted.receipts = entry.receipts
          /\ counted.mine = entry.mine /\ counted.disposed = entry.disposed
      BY <2>1, <2>3, <2>4 DEF DshEntries
    <3>3. installed \in BOOLEAN /\ hooked \in BOOLEAN /\ agent \in BOOLEAN
      BY DEF DshInv, DshTypes
    <3>4. Dsh!Running /\ counted.running # Nil /\ DshSame(counted.running, entry.running)
      BY <1>4, <2>1, <2>3, <3>2
    <3> QED BY <1>1, <2>1, <3>1, <3>2, <3>3, <3>4, DshStopKeeps DEF Dsh!plugin
  <2> QED BY <2>6, <2>7
<1> QED BY <1>3, <1>4

\* What the hooks note of an execution, or what it is missing.
LEMMA DshNotedKeep ==
  ASSUME DshApart, DshInv, Dsh!Running, NEW r \in DshRuns, Dsh!Notes(r),
         r.effect = entry.running.effect, r.missed = entry.running.missed,
         entry.running.ends \subseteq r.ends, r.answers <= 1 => r.ends \subseteq {r.last}, r.ends # {} => r.answers >= 1,
         turn' \in DshTurns \cup {Nil},
         turn' # Nil /\ turn'.phase = "answered" => r.answers >= 1 /\ (r.ends # {} => r.answers >= 2),
         UNCHANGED <<journal, Dsh!plugin, op, stray, inbox, given, readmitted, dshTold>>
  PROVE  DshInv' /\ DshKept /\ Dsh!OnlyReadmittedStarts
<1>1. CASE Dsh!Watched
  <2>1. entry' = [entry EXCEPT !.running = r] /\ shaken' = shaken
    BY <1>1 DEF Dsh!Notes
  <2> QED BY <2>1, DshNotesKeep
<1>2. CASE ~Dsh!Watched
  <2>1. PICK q : q = [r EXCEPT !.missed = TRUE]
    OBVIOUS
  <2>2. /\ q \in DshRuns /\ q.missed /\ q.effect = r.effect /\ q.ends = r.ends /\ q.answers = r.answers /\ q.last = r.last
    BY <2>1 DEF DshRuns
  <2>3. entry' = [entry EXCEPT !.running = q] /\ shaken' = shaken \cup {entry.running.effect}
    BY <1>2, <2>1 DEF Dsh!Notes, Dsh!Shakes
  <2> QED BY <1>2, <2>2, <2>3, DshNotesKeep
<1> QED BY <1>1, <1>2

\* A request is answered.
LEMMA DshAnswersKeep ==
  ASSUME DshApart, DshInv, NEW more \in BOOLEAN, Dsh!Answer(more)
  PROVE  DshInv' /\ DshKept /\ Dsh!OnlyReadmittedStarts
<1>1. /\ turn \in DshTurns /\ op.at # "context" /\ turn' = [turn EXCEPT !.phase = IF more THEN "open" ELSE "answered"]
      /\ UNCHANGED <<journal, Dsh!plugin, op, stray, inbox, given, readmitted, dshTold>> /\ inbox \subseteq Agents
  BY DEF Dsh!Answer, DshInv, DshTypes
<1>2. turn' \in DshTurns
  BY <1>1 DEF DshTurns
<1>3. CASE ~Dsh!Running
  <2>1. UNCHANGED <<entry, shaken>>
    BY <1>3 DEF Dsh!Answer
  <2> QED BY <1>1, <1>2, <1>3, <2>1, DshTurnKeeps
<1>4. CASE Dsh!Running
  <2>1. entry.running \in DshRuns
    BY <1>4 DEF DshInv, DshTypes, DshEntries, Dsh!Running
  <2>2. PICK r : r = [entry.running EXCEPT !.answers = @ + 1]
    OBVIOUS
  <2>3. /\ r \in DshRuns /\ r.effect = entry.running.effect /\ r.missed = entry.running.missed
        /\ r.ends = entry.running.ends /\ r.answers = entry.running.answers + 1 /\ r.last = entry.running.last
        /\ entry.running.answers \in Nat
    BY <2>1, <2>2 DEF DshRuns
  <2>4. Dsh!Notes(r)
    BY <1>4, <2>2 DEF Dsh!Answer
  <2>5. entry.running.ends # {} => entry.running.answers >= 1
    BY <1>4 DEF DshInv, DshRunFits
  <2>6. r.answers >= 1 /\ (r.ends # {} => r.answers >= 2)
    BY <2>3, <2>5
  <2>7. r.answers <= 1 => r.ends \subseteq {r.last}
    BY <2>3, <2>6
  <2> QED BY <1>1, <1>2, <1>4, <2>3, <2>4, <2>6, <2>7, DshNotedKeep
<1> QED BY <1>3, <1>4

\* A turn ends.
LEMMA DshEndsKeep == ASSUME DshApart, DshInv, Dsh!TurnEnds PROVE DshInv' /\ DshKept /\ Dsh!OnlyReadmittedStarts
<1>1. /\ turn # Nil /\ turn.phase = "answered" /\ turn' = Nil
      /\ UNCHANGED <<journal, Dsh!plugin, op, stray, inbox, given, readmitted, dshTold>> /\ inbox \subseteq Agents
  BY DEF Dsh!TurnEnds, DshInv, DshTypes
<1>2. CASE ~Dsh!Running
  <2>1. UNCHANGED <<entry, shaken>>
    BY <1>2 DEF Dsh!TurnEnds
  <2> QED BY <1>1, <2>1, DshTurnKeeps
<1>3. CASE Dsh!Running
  <2>1. PICK kind \in DshKinds : Dsh!Notes([entry.running EXCEPT !.ends = @ \cup {kind}, !.last = kind])
    BY <1>3 DEF Dsh!TurnEnds, DshKinds
  <2>2. entry.running \in DshRuns
    BY <1>3 DEF DshInv, DshTypes, DshEntries, Dsh!Running
  <2>3. PICK r : r = [entry.running EXCEPT !.ends = @ \cup {kind}, !.last = kind]
    OBVIOUS
  <2>4. /\ r \in DshRuns /\ r.effect = entry.running.effect /\ r.missed = entry.running.missed
        /\ r.ends = entry.running.ends \cup {kind} /\ r.answers = entry.running.answers /\ r.last = kind
        /\ entry.running.answers \in Nat
    BY <2>2, <2>3 DEF DshRuns
  <2>5. entry.running.answers >= 1 /\ (entry.running.ends # {} => entry.running.answers >= 2)
    BY <1>1, <1>3 DEF DshInv, DshRunFits
  <2>6. r.answers >= 1 /\ (r.answers <= 1 => r.ends \subseteq {r.last})
    BY <2>4, <2>5
  <2>7. Dsh!Notes(r)
    BY <2>1, <2>3
  <2> QED BY <1>1, <1>3, <2>4, <2>6, <2>7, DshNotedKeep
<1> QED BY <1>2, <1>3

-----------------------------------------------------------------------------
(* The theorems.                                                               *)

\* Every step keeps the invariant and the promise, and starts only what was re-admitted.
LEMMA DshNextKeeps == DshApart /\ DshInv /\ [Dsh!Next]_(Dsh!vars) => DshInv' /\ DshKept /\ Dsh!OnlyReadmittedStarts
<1> SUFFICES ASSUME DshApart, DshInv, [Dsh!Next]_(Dsh!vars) PROVE DshInv' /\ DshKept /\ Dsh!OnlyReadmittedStarts
  OBVIOUS
<1>1. CASE UNCHANGED Dsh!vars
  <2>1. UNCHANGED <<journal, installed, hooked, agent, entry, op, stray, turn, inbox, given, readmitted, dshTold, shaken>>
    BY <1>1 DEF Dsh!vars, Dsh!plugin, Dsh!native, Dsh!history
  <2>2. DshTypes' /\ DshEntryFits'
    BY <2>1 DEF DshInv, DshTypes, DshEntryFits, Dsh!Healthy
  <2>3. DshOpFits' /\ DshEffectsFit' /\ DshRunFits'
    BY <2>1 DEF DshInv, DshOpFits, DshEffectsFit, DshRunFits, Dsh!Running, Dsh!Watched
  <2> QED BY <2>1, <2>2, <2>3 DEF DshInv, DshKept, DshContract!vars, Dsh!OnlyReadmittedStarts
<1>2. CASE Dsh!Next
  BY <1>2, DshCreatedKeeps, DshInstallKeeps, DshUninstallKeeps, DshDisposedKeeps, DshCrashKeeps, DshRemovedKeeps,
     DshUnexpectedKeeps,
     DshStepKeeps, DshRepeatKeeps, DshStrayKeeps, DshContinueKeeps, DshRefusesKeeps, DshBeginsKeeps, DshReturnsKeeps, DshConflictKeeps,
     DshThrowsKeeps, DshToolKeeps, DshReconcileKeeps, DshPauseKeeps, DshResumeKeeps, DshCancelKeeps, DshStopAnswerKeeps,
     DshTurnStartsKeeps, DshPreStepKeeps, DshEndsKeep, DshAnswersKeep DEF Dsh!Next
<1> QED BY <1>1, <1>2

\* Nothing is installed at first, and nothing was given or told.
LEMMA DshInitFits == DshApart /\ Dsh!Init => DshInv /\ DshContract!Init
<1> SUFFICES ASSUME DshApart, Dsh!Init PROVE DshInv /\ DshContract!Init
  OBVIOUS
<1>1. DshTypes
  BY DEF Dsh!Init, DshTypes, DshJournals, DshStates, DshOperations, Dsh!Resting
<1>2. DshEntryFits /\ DshOpFits /\ DshEffectsFit /\ DshRunFits
  BY DEF Dsh!Init, DshEntryFits, DshOpFits, DshEffectsFit, DshRunFits, Dsh!Running, Dsh!Resting
<1>3. DshContract!Init
  BY DEF Dsh!Init, DshContract!Init
<1> QED BY <1>1, <1>2, <1>3 DEF DshInv

\* The invariant holds in every state.
LEMMA DshFits == DshApart /\ Dsh!Spec => [](DshApart /\ DshInv)
<1>1. DshApart => DshApart'
  BY DEF DshApart, DshRuns, DshEntries, DshTurns, DshReceipts
<1> QED BY <1>1, DshInitFits, DshNextKeeps, PTL DEF Dsh!Spec

\* The binding implements the promise of a host (bindDshSession): however often the plugin is
\* installed, lost or left, an effect is given to the native session at most once, and what is
\* told of it is never taken back.
THEOREM DshKeepsItsPromise == DshApart /\ Dsh!Spec => DshContract!Spec
<1>1. DshApart /\ DshInv /\ [Dsh!Next]_(Dsh!vars) => [DshContract!Next]_(DshContract!vars)
  BY DshNextKeeps DEF DshKept
<1> QED BY <1>1, DshInitFits, DshFits, PTL DEF Dsh!Spec, DshContract!Spec

\* A definite verdict is only told of an execution whose session had no fault, was not disposed
\* of, and whose hooks saw it from its first event to its last (the receipt of invoke).
THEOREM DshAnswersCovered == DshApart /\ Dsh!Spec => []Dsh!CompletedIsCovered
<1>1. DshInv => Dsh!CompletedIsCovered
  BY DEF DshInv, DshEffectsFit, Dsh!CompletedIsCovered
<1> QED BY <1>1, DshFits, PTL

\* An execution whose stop was acknowledged (cancel) is never told completed.
THEOREM DshAcksAgree == DshApart /\ Dsh!Spec => []Dsh!AckAgrees
<1>1. DshInv => Dsh!AckAgrees
  BY DEF DshInv, DshEffectsFit, Dsh!AckAgrees
<1> QED BY <1>1, DshFits, PTL

\* Every step leaves a session that has a fault paused or says that it is not, and what was
\* lost, disposed of or uninstalled starts nothing before it was resumed (stopEvolution, open).
THEOREM DshHonorsPauses == DshApart /\ Dsh!Spec => Dsh!PausesAreHonored
<1>1. DshInv' => Dsh!DegradedIsPaused'
  BY DEF DshInv, DshEntryFits, Dsh!DegradedIsPaused
<1>2. DshApart /\ DshInv /\ [Dsh!Next]_(Dsh!vars) => Dsh!DegradedIsPaused' /\ Dsh!OnlyReadmittedStarts
  BY <1>1, DshNextKeeps
<1>3. DshApart /\ DshInv /\ [Dsh!Next]_(Dsh!vars) => [Dsh!DegradedIsPaused' /\ Dsh!OnlyReadmittedStarts]_(Dsh!vars)
  BY <1>2
<1> QED BY <1>3, DshFits, PTL DEF Dsh!Spec, Dsh!PausesAreHonored

-----------------------------------------------------------------------------
(* The team of a DSH session.  A record is there before its teammate is given      *)
(* anything, the calls and requests a hook admitted are in the transcript, on their way     *)
(* or lost, and one that no hook admitted stays there beside them.                           *)

\* Sets are counted in the instance as they are counted here.
LEMMA TeamCounts == \A S : Team!Cardinality(S) = Cardinality(S)
BY DEF Team!Cardinality, Cardinality

(* The state.                                                                  *)

TeamEnds == {"completed", "error", "aborted", "other"}
TeamVerdicts == Team!Terminal \cup {"unknown", Nil}
TeamPhases == {"prepared", "running", "unknown", "settled"}
TeamEntries ==
  [phase : TeamPhases, child : Children \cup {Nil}, from : Nat \ {0}, message : BOOLEAN, receipt : TeamVerdicts,
   preSteps : Nat, unconfirmed : BOOLEAN, gated : SUBSET Calls, results : SUBSET Calls]
TeamRuns ==
  [at : {"rest", "board", "sending", "sent", "projecting", "waiting"}, d : TeamDelegations \cup {Nil}, from : Nat]
TeamTurns ==
  [by : TeamDelegations \cup {"user"}, at : {"new", "entered", "answered", "failed", "over"}, abort : BOOLEAN]
TeamEvents == [type : {"message", "assistant", "call", "end"}, by : TeamDelegations \cup {"user"} \cup Calls \cup TeamEnds]
TeamCalls ==
  [child : Children, call : Calls, d : TeamDelegations \cup {Nil}, current : BOOLEAN, at : {"gate", "running", "denied"}]

\* Nil is nothing else, and a teammate that is made is a new one.
TeamApart ==
  /\ Nil \notin TeamEntries \cup TeamTurns \cup Children \cup TeamDelegations \cup {"native-ack"}
  /\ Target \in [TeamDelegations -> Children] /\ Existing \subseteq TeamDelegations
  /\ \A d \in TeamDelegations \ Existing, e \in TeamDelegations : Target[d] = Target[e] => d = e \/ e \in Existing

TeamTypes ==
  /\ teamOpen \in BOOLEAN /\ held \subseteq TeamDelegations /\ team \subseteq Children
  /\ teamRecords \in [TeamDelegations -> TeamEntries \cup {Nil}]
  /\ teamRun \in [Threads -> TeamRuns]
  /\ turns \in [Children -> TeamTurns \cup {Nil}]
  /\ messages \in [Children -> SUBSET TeamDelegations]
  /\ transcript \in [Children -> Seq(TeamEvents)]
  /\ tools \subseteq TeamCalls
  /\ sent \in [TeamDelegations -> Nat] /\ stopping \subseteq TeamDelegations
  /\ teamTold \in [TeamDelegations -> SUBSET (Team!Terminal \cup {"native-ack"})]
  /\ strays \subseteq TeamDelegations /\ lost \subseteq TeamDelegations

-----------------------------------------------------------------------------
(* The invariant.                                                              *)

TeamBegun(t) == teamRun[t].at \notin {"rest", "board"}

\* What an execution awaits: one delegation, sent by it alone.
TeamRunsFit ==
  \A t \in Threads :
    /\ teamRun[t].at # "rest" => teamRun[t].d \in TeamDelegations /\ teamRun[t].from \in 1..Len(transcript[Target[teamRun[t].d]]) + 1
    /\ TeamBegun(t) => teamRun[t].d \in Team!Recorded
    /\ \A u \in Threads : TeamBegun(t) /\ TeamBegun(u) /\ teamRun[t].d = teamRun[u].d => t = u

\* A record is there since its delegation was sent, and of what has none nothing is said.
TeamDispatchesFit ==
  \A d \in TeamDelegations :
    /\ sent[d] = IF teamRecords[d] = Nil THEN 0 ELSE 1
    /\ teamRecords[d] = Nil => teamTold[d] = {} /\ d \notin strays
    /\ teamRecords[d] # Nil => /\ teamRecords[d].child \in {Nil, Target[d]}
                               /\ teamRecords[d].from <= Len(transcript[Target[d]]) + 1
                               /\ teamRecords[d].phase = "settled" => teamRecords[d].receipt \in teamTold[d]

\* A new teammate is not there before it was made.
TeamFreshFits ==
  /\ \A c \in Children : turns[c] # Nil => c \in team
  /\ \A d \in TeamDelegations \ Existing :
       teamRecords[d] = Nil \/ (\E t \in Threads : teamRun[t].at = "sending" /\ teamRun[t].d = d) => Target[d] \notin team

\* The calls in the transcripts; only those are in progress or admitted.
TeamMade == {k \in Calls : \E c \in Children : \E i \in DOMAIN transcript[c] : transcript[c][i].type = "call" /\ transcript[c][i].by = k}
TeamCallsFit ==
  /\ \A x \in tools : x.call \in TeamMade /\ (x.at = "gate" => x.d \in Team!Recorded)
  /\ \A d \in Team!Recorded : teamRecords[d].gated \subseteq TeamMade

\* What the transcript of the child shows since the delegation was sent.
TeamSince(d, type) == {i \in DOMAIN transcript[Target[d]] : teamRecords[d].from <= i /\ transcript[Target[d]][i].type = type}
TeamAsking(d) == turns[Target[d]] # Nil /\ turns[Target[d]].at = "entered"
TeamAdmitted(d) == teamRecords[d].preSteps # 0 /\ ~teamRecords[d].unconfirmed

\* A request that was admitted was answered, is on its way, or was lost.
TeamRequestsFit ==
  \A d \in Team!Recorded \ lost : TeamAdmitted(d) => TeamAsking(d) \/ TeamSince(d, "assistant") # {}

\* A call that no hook admitted stays in the transcript, and so does a request, beside the
\* one that was admitted.
TeamUnseen(d) == \E i \in TeamSince(d, "call") : LET k == transcript[Target[d]][i].by
                                                 IN k \notin teamRecords[d].gated /\ \A x \in tools : x.call = k => x.at # "gate"
TeamBeside(d) ==
  IF TeamAdmitted(d) THEN \E i \in TeamSince(d, "assistant") : TeamAsking(d) \/ \E j \in TeamSince(d, "assistant") : i # j
  ELSE TeamAsking(d) \/ TeamSince(d, "assistant") # {}
TeamStraysFit == \A d \in strays \ lost : TeamUnseen(d) \/ TeamBeside(d)

TeamInv ==
  TeamTypes /\ TeamRunsFit /\ TeamDispatchesFit /\ TeamFreshFits /\ TeamCallsFit /\ TeamRequestsFit /\ TeamStraysFit /\ Team!CompletedIsCovered

-----------------------------------------------------------------------------
(* Steps.                                                                      *)

\* The records keep their evidence and nothing comes to a gate.
TeamSameEvidence ==
  /\ teamRecords' \in [TeamDelegations -> TeamEntries \cup {Nil}]
  /\ \A d \in TeamDelegations :
       /\ teamRecords'[d] = Nil <=> teamRecords[d] = Nil
       /\ teamRecords[d] # Nil => /\ teamRecords'[d].child \in {Nil, Target[d]}
                                  /\ teamRecords'[d].from = teamRecords[d].from
                                  /\ teamRecords'[d].gated = teamRecords[d].gated
                                  /\ teamRecords'[d].preSteps = teamRecords[d].preSteps
                                  /\ teamRecords'[d].unconfirmed = teamRecords[d].unconfirmed
                                  /\ teamRecords'[d].phase = "settled" => teamRecords'[d].receipt \in teamTold'[d]
  /\ tools' \subseteq TeamCalls
  /\ \A y \in tools' : \E x \in tools : x.call = y.call /\ x.d = y.d /\ (y.at = "gate" => x.at = "gate")

\* A write keeps what is in progress, and the other records.
LEMMA TeamSavedIs ==
  ASSUME TeamTypes, NEW d \in TeamDelegations, NEW r \in TeamEntries, Team!Saved(d, r)
  PROVE  /\ teamRecords' \in [TeamDelegations -> TeamEntries \cup {Nil}]
         /\ teamRecords'[d] = r
         /\ \A e \in TeamDelegations : e # d => teamRecords'[e] = teamRecords[e]
         /\ tools' \subseteq TeamCalls
         /\ \A y \in tools' : \E x \in tools : x.call = y.call /\ x.d = y.d /\ x.at = y.at
<1>1. \A x \in tools : [x EXCEPT !.current = FALSE] \in TeamCalls
  BY DEF TeamTypes, TeamCalls
<1>2. tools' \subseteq TeamCalls
  BY <1>1 DEF Team!Saved, TeamTypes
<1>3. \A y \in tools' : \E x \in tools : x.call = y.call /\ x.d = y.d /\ x.at = y.at
  <2> SUFFICES ASSUME NEW y \in tools' PROVE \E x \in tools : x.call = y.call /\ x.d = y.d /\ x.at = y.at
    OBVIOUS
  <2>1. PICK x \in tools : y = IF x.d = d THEN [x EXCEPT !.current = FALSE] ELSE x
    BY DEF Team!Saved
  <2>2. x \in TeamCalls
    BY DEF TeamTypes
  <2> QED BY <2>1, <2>2 DEF TeamCalls
<1> QED BY <1>2, <1>3 DEF Team!Saved, TeamTypes

\* A record that keeps its evidence when it is written.
LEMMA TeamSavedKeeps ==
  ASSUME TeamApart, TeamTypes, NEW d \in Team!Recorded, NEW r \in TeamEntries, Team!Saved(d, r), TeamDispatchesFit,
         r.child \in {Nil, Target[d]}, r.from = teamRecords[d].from, r.gated = teamRecords[d].gated,
         r.preSteps = teamRecords[d].preSteps, r.unconfirmed = teamRecords[d].unconfirmed,
         r.phase = "settled" => r.receipt \in teamTold'[d], \A e \in TeamDelegations : teamTold[e] \subseteq teamTold'[e]
  PROVE  TeamSameEvidence
<1>1. d \in TeamDelegations /\ teamRecords[d] # Nil /\ r # Nil
  BY DEF Team!Recorded, TeamApart
<1>2. /\ teamRecords' \in [TeamDelegations -> TeamEntries \cup {Nil}]
      /\ teamRecords'[d] = r
      /\ \A e \in TeamDelegations : e # d => teamRecords'[e] = teamRecords[e]
      /\ tools' \subseteq TeamCalls
      /\ \A y \in tools' : \E x \in tools : x.call = y.call /\ x.d = y.d /\ x.at = y.at
  BY <1>1, TeamSavedIs
<1>3. \A y \in tools' : \E x \in tools : x.call = y.call /\ x.d = y.d /\ (y.at = "gate" => x.at = "gate")
  BY <1>2
<1>4. ASSUME NEW e \in TeamDelegations, teamRecords[e] # Nil
      PROVE  teamRecords[e].child \in {Nil, Target[e]} /\ (teamRecords[e].phase = "settled" => teamRecords[e].receipt \in teamTold'[e])
  BY <1>4 DEF TeamDispatchesFit
<1> QED BY <1>1, <1>2, <1>3, <1>4 DEF TeamSameEvidence

\* Nothing is said of a delegation that was not sent.
LEMMA TeamUnchangedKeeps ==
  ASSUME TeamApart, TeamTypes, TeamDispatchesFit, UNCHANGED <<teamRecords, tools>>,
         \A e \in TeamDelegations : teamTold[e] \subseteq teamTold'[e]
  PROVE  TeamSameEvidence
  BY DEF TeamSameEvidence, TeamTypes, TeamDispatchesFit

\* Where evidence, transcripts and requests stay, the hooks' accounts agree with them.
LEMMA TeamQuietKeeps ==
  ASSUME TeamApart, TeamInv, TeamSameEvidence, UNCHANGED <<transcript, strays, lost, sent>>,
         turns' \in [Children -> TeamTurns \cup {Nil}],
         \A c \in Children : (turns'[c] # Nil /\ turns'[c].at = "entered") <=> (turns[c] # Nil /\ turns[c].at = "entered"),
         \A d \in TeamDelegations \ Team!Recorded : teamTold'[d] = {}
  PROVE  /\ TeamDispatchesFit' /\ TeamCallsFit' /\ TeamRequestsFit' /\ TeamStraysFit'
         /\ Team!Recorded' = Team!Recorded
<1>1. Team!Recorded' = Team!Recorded
  BY DEF TeamSameEvidence, Team!Recorded
<1>2. TeamDispatchesFit'
  BY DEF TeamDispatchesFit, TeamInv, TeamSameEvidence, Team!Recorded
<1>3. TeamMade' = TeamMade
  BY DEF TeamMade
<1>4. TeamCallsFit'
  <2>1. \A x \in tools' : x.call \in TeamMade' /\ (x.at = "gate" => x.d \in Team!Recorded')
    BY <1>1, <1>3 DEF TeamCallsFit, TeamInv, TeamSameEvidence
  <2>2. \A d \in Team!Recorded' : teamRecords'[d].gated \subseteq TeamMade'
    BY <1>1, <1>3 DEF TeamCallsFit, TeamInv, TeamSameEvidence, Team!Recorded
  <2> QED BY <2>1, <2>2 DEF TeamCallsFit
<1>5. ASSUME NEW d \in Team!Recorded
      PROVE  /\ TeamAsking(d)' <=> TeamAsking(d)
             /\ TeamAdmitted(d)' <=> TeamAdmitted(d)
             /\ \A type : TeamSince(d, type)' = TeamSince(d, type)
  <2>1. d \in TeamDelegations /\ Target[d] \in Children
    BY DEF Team!Recorded, TeamApart
  <2>2. TeamAsking(d)' <=> TeamAsking(d)
    BY <2>1 DEF TeamAsking
  <2>3. TeamAdmitted(d)' <=> TeamAdmitted(d)
    BY <2>1 DEF TeamAdmitted, TeamSameEvidence, Team!Recorded
  <2>4. \A type : TeamSince(d, type)' = TeamSince(d, type)
    BY <2>1 DEF TeamSince, TeamSameEvidence, Team!Recorded
  <2> QED BY <2>2, <2>3, <2>4
<1>6. TeamRequestsFit'
  BY <1>1, <1>5 DEF TeamRequestsFit, TeamInv
<1>7. TeamStraysFit'
  <2> SUFFICES ASSUME NEW d \in strays' \ lost' PROVE TeamUnseen(d)' \/ TeamBeside(d)'
    BY DEF TeamStraysFit
  <2>1. d \in strays \ lost /\ d \in TeamDelegations /\ d \in Team!Recorded
    BY DEF TeamInv, TeamTypes, TeamDispatchesFit, Team!Recorded
  <2>2. CASE TeamBeside(d)
    BY <2>1, <2>2, <1>5 DEF TeamBeside
  <2>3. CASE TeamUnseen(d)
    <3>1. PICK i \in TeamSince(d, "call") : LET k == transcript[Target[d]][i].by
                                            IN k \notin teamRecords[d].gated /\ \A x \in tools : x.call = k => x.at # "gate"
      BY <2>3 DEF TeamUnseen
    <3>2. i \in TeamSince(d, "call")'
      BY <3>1, <2>1, <1>5
    <3>3. teamRecords'[d].gated = teamRecords[d].gated
      BY <2>1 DEF TeamSameEvidence, Team!Recorded
    <3> QED BY <3>1, <3>2, <3>3 DEF TeamUnseen, TeamSameEvidence
  <2> QED BY <2>1, <2>2, <2>3 DEF TeamStraysFit, TeamInv
<1> QED BY <1>1, <1>2, <1>4, <1>6, <1>7

\* Transcripts grow at their ends by anything but a call; a request that ends was answered.
LEMMA TeamGrowthKeeps ==
  ASSUME TeamApart, TeamInv, UNCHANGED <<teamRecords, tools, strays, lost, sent, teamTold>>,
         NEW c \in Children, NEW e \in TeamEvents, NEW x \in TeamTurns \cup {Nil},
         e.type # "call", transcript' = [transcript EXCEPT ![c] = Append(@, e)],
         turns' = [turns EXCEPT ![c] = x], x # Nil => x.at # "entered",
         turns[c] # Nil /\ turns[c].at = "entered" => e.type = "assistant"
  PROVE  /\ TeamDispatchesFit' /\ TeamCallsFit' /\ TeamRequestsFit' /\ TeamStraysFit'
         /\ transcript' \in [Children -> Seq(TeamEvents)] /\ turns' \in [Children -> TeamTurns \cup {Nil}]
         /\ \A b \in Children : Len(transcript[b]) <= Len(transcript'[b])
<1>1. /\ transcript' \in [Children -> Seq(TeamEvents)] /\ turns' \in [Children -> TeamTurns \cup {Nil}]
      /\ Team!Recorded' = Team!Recorded
  BY DEF TeamInv, TeamTypes, Team!Recorded
<1>2. ASSUME NEW b \in Children
      PROVE  /\ Len(transcript[b]) \in Nat /\ Len(transcript'[b]) \in Nat /\ Len(transcript[b]) <= Len(transcript'[b])
             /\ DOMAIN transcript[b] = 1..Len(transcript[b]) /\ DOMAIN transcript'[b] = 1..Len(transcript'[b])
             /\ \A i \in DOMAIN transcript[b] : i \in DOMAIN transcript'[b] /\ transcript'[b][i] = transcript[b][i]
             /\ \A i \in DOMAIN transcript'[b] : i \notin DOMAIN transcript[b] => b = c /\ i = Len(transcript[c]) + 1 /\ transcript'[b][i] = e
             /\ b = c => Len(transcript[c]) + 1 \in DOMAIN transcript'[c] /\ transcript'[c][Len(transcript[c]) + 1] = e
  <2>1. transcript[b] \in Seq(TeamEvents) /\ transcript[c] \in Seq(TeamEvents)
    BY DEF TeamInv, TeamTypes
  <2>2. CASE b = c
    <3>1. transcript'[b] = Append(transcript[c], e)
      BY <2>2 DEF TeamInv, TeamTypes
    <3> QED BY <2>1, <2>2, <3>1
  <2>3. CASE b # c
    <3>1. transcript'[b] = transcript[b]
      BY <2>3 DEF TeamInv, TeamTypes
    <3> QED BY <2>1, <2>3, <3>1
  <2> QED BY <2>2, <2>3
<1>3. TeamDispatchesFit'
  <2> SUFFICES ASSUME NEW d \in TeamDelegations, teamRecords[d] # Nil
               PROVE  teamRecords[d].from <= Len(transcript'[Target[d]]) + 1
    BY DEF TeamDispatchesFit, TeamInv
  <2>1. teamRecords[d].from <= Len(transcript[Target[d]]) + 1 /\ teamRecords[d].from \in Nat
    BY DEF TeamDispatchesFit, TeamInv, TeamTypes, TeamEntries
  <2>2. Target[d] \in Children
    BY DEF TeamApart
  <2> QED BY <1>2, <2>1, <2>2
<1>4. TeamMade' = TeamMade
  <2>1. ASSUME NEW k \in TeamMade PROVE k \in TeamMade'
    <3>1. PICK b \in Children : \E i \in DOMAIN transcript[b] : transcript[b][i].type = "call" /\ transcript[b][i].by = k
      BY DEF TeamMade
    <3>2. \E i \in DOMAIN transcript'[b] : transcript'[b][i].type = "call" /\ transcript'[b][i].by = k
      BY <1>2, <3>1
    <3> QED BY <3>2 DEF TeamMade
  <2>2. ASSUME NEW k \in TeamMade' PROVE k \in TeamMade
    <3>1. PICK b \in Children : \E i \in DOMAIN transcript'[b] : transcript'[b][i].type = "call" /\ transcript'[b][i].by = k
      BY DEF TeamMade
    <3>2. \E i \in DOMAIN transcript[b] : transcript[b][i].type = "call" /\ transcript[b][i].by = k
      BY <1>2, <3>1
    <3> QED BY <3>2 DEF TeamMade
  <2> QED BY <2>1, <2>2
<1>5. TeamCallsFit'
  BY <1>1, <1>4 DEF TeamCallsFit, TeamInv
<1>6. ASSUME NEW d \in Team!Recorded
      PROVE  /\ \A type : TeamSince(d, type) \subseteq TeamSince(d, type)'
             /\ TeamAsking(d)' => TeamAsking(d) /\ Target[d] # c
             /\ TeamAsking(d) /\ ~TeamAsking(d)' => \E i \in TeamSince(d, "assistant")' : i \notin TeamSince(d, "assistant")
             /\ TeamAdmitted(d)' = TeamAdmitted(d)
  <2>1. d \in TeamDelegations /\ Target[d] \in Children
    BY DEF Team!Recorded, TeamApart
  <2>2. \A type : TeamSince(d, type) \subseteq TeamSince(d, type)'
    BY <1>2, <2>1 DEF TeamSince
  <2>3. TeamAsking(d)' => TeamAsking(d) /\ Target[d] # c
    BY <2>1 DEF TeamAsking, TeamInv, TeamTypes
  <2>4. ASSUME TeamAsking(d), ~TeamAsking(d)'
        PROVE  \E i \in TeamSince(d, "assistant")' : i \notin TeamSince(d, "assistant")
    <3>1. Target[d] = c /\ e.type = "assistant"
      BY <2>1, <2>4 DEF TeamAsking, TeamInv, TeamTypes
    <3>2. teamRecords[d].from <= Len(transcript[c]) + 1
      BY <2>1, <3>1 DEF TeamDispatchesFit, TeamInv, Team!Recorded
    <3>3. Len(transcript[c]) + 1 \in TeamSince(d, "assistant")'
      BY <1>2, <3>1, <3>2 DEF TeamSince
    <3>4. Len(transcript[c]) + 1 \notin TeamSince(d, "assistant")
      BY <1>2, <3>1 DEF TeamSince
    <3> QED BY <3>3, <3>4
  <2> QED BY <2>2, <2>3, <2>4 DEF TeamAdmitted
<1>7. TeamRequestsFit'
  <2> SUFFICES ASSUME NEW d \in Team!Recorded \ lost, TeamAdmitted(d) PROVE TeamAsking(d)' \/ TeamSince(d, "assistant")' # {}
    BY <1>1, <1>6 DEF TeamRequestsFit
  <2> QED BY <1>6 DEF TeamRequestsFit, TeamInv
<1>8. TeamStraysFit'
  <2> SUFFICES ASSUME NEW d \in strays \ lost PROVE TeamUnseen(d)' \/ TeamBeside(d)'
    BY DEF TeamStraysFit
  <2>1. d \in TeamDelegations /\ d \in Team!Recorded /\ Target[d] \in Children
    BY DEF TeamInv, TeamTypes, TeamDispatchesFit, Team!Recorded, TeamApart
  <2>2. CASE TeamUnseen(d)
    <3>1. PICK i \in TeamSince(d, "call") : LET k == transcript[Target[d]][i].by
                                            IN k \notin teamRecords[d].gated /\ \A x_1 \in tools : x_1.call = k => x_1.at # "gate"
      BY <2>2 DEF TeamUnseen
    <3>2. i \in TeamSince(d, "call")' /\ transcript'[Target[d]][i] = transcript[Target[d]][i]
      BY <1>2, <1>6, <2>1, <3>1 DEF TeamSince
    <3> QED BY <3>1, <3>2 DEF TeamUnseen
  <2>3. CASE TeamBeside(d) /\ ~TeamAdmitted(d)
    BY <2>1, <2>3, <1>6 DEF TeamBeside
  <2>4. CASE TeamBeside(d) /\ TeamAdmitted(d)
    <3>1. PICK i \in TeamSince(d, "assistant") : TeamAsking(d) \/ \E j \in TeamSince(d, "assistant") : i # j
      BY <2>4 DEF TeamBeside
    <3> QED BY <2>1, <2>4, <3>1, <1>6 DEF TeamBeside
  <2> QED BY <2>2, <2>3, <2>4 DEF TeamStraysFit, TeamInv
<1> QED BY <1>1, <1>2, <1>3, <1>5, <1>7, <1>8

\* An execution goes on with its delegation or ends.
LEMMA TeamRunsKeep ==
  ASSUME TeamApart, TeamInv, teamRun' \in [Threads -> TeamRuns],
         \A t \in Threads : \/ teamRun'[t].at = "rest"
                            \/ /\ teamRun'[t].d = teamRun[t].d /\ teamRun'[t].from = teamRun[t].from /\ teamRun[t].at # "rest"
                               /\ teamRun'[t].at \notin {"rest", "board"} => TeamBegun(t),
         Team!Recorded \subseteq Team!Recorded',
         \A b \in Children : Len(transcript[b]) \in Nat /\ Len(transcript'[b]) \in Nat /\ Len(transcript[b]) <= Len(transcript'[b])
  PROVE  TeamRunsFit'
<1> SUFFICES ASSUME NEW t \in Threads
             PROVE  /\ teamRun'[t].at # "rest" => teamRun'[t].d \in TeamDelegations /\ teamRun'[t].from \in 1..Len(transcript'[Target[teamRun'[t].d]]) + 1
                    /\ TeamBegun(t)' => teamRun'[t].d \in Team!Recorded'
                    /\ \A u \in Threads : TeamBegun(t)' /\ TeamBegun(u)' /\ teamRun'[t].d = teamRun'[u].d => t = u
  BY DEF TeamRunsFit
<1>1. ASSUME NEW u \in Threads
      PROVE  /\ teamRun'[u].at # "rest" => teamRun'[u].d = teamRun[u].d /\ teamRun'[u].from = teamRun[u].from /\ teamRun[u].at # "rest"
             /\ TeamBegun(u)' => TeamBegun(u) /\ teamRun'[u].d = teamRun[u].d
  BY DEF TeamBegun
<1>2. ASSUME teamRun'[t].at # "rest"
      PROVE  teamRun'[t].d \in TeamDelegations /\ teamRun'[t].from \in 1..Len(transcript'[Target[teamRun'[t].d]]) + 1
  <2>1. teamRun[t].d \in TeamDelegations /\ teamRun[t].from \in 1..Len(transcript[Target[teamRun[t].d]]) + 1
    BY <1>1, <1>2 DEF TeamRunsFit, TeamInv
  <2>2. Target[teamRun[t].d] \in Children
    BY <2>1 DEF TeamApart
  <2> QED BY <1>1, <1>2, <2>1, <2>2
<1>3. TeamBegun(t)' => teamRun'[t].d \in Team!Recorded'
  BY <1>1 DEF TeamRunsFit, TeamInv
<1>4. \A u \in Threads : TeamBegun(t)' /\ TeamBegun(u)' /\ teamRun'[t].d = teamRun'[u].d => t = u
  BY <1>1 DEF TeamRunsFit, TeamInv
<1> QED BY <1>2, <1>3, <1>4

\* A turn is of a member of the team, and who is to be made was to be made before.
LEMMA TeamFreshKeeps ==
  ASSUME TeamApart, TeamInv, team' = team,
         \A c \in Children : turns'[c] # Nil => turns[c] # Nil \/ c \in team,
         \A d \in TeamDelegations \ Existing :
           teamRecords'[d] = Nil \/ (\E t \in Threads : teamRun'[t].at = "sending" /\ teamRun'[t].d = d)
             => teamRecords[d] = Nil \/ (\E t \in Threads : teamRun[t].at = "sending" /\ teamRun[t].d = d)
  PROVE  TeamFreshFits'
  BY DEF TeamFreshFits, TeamInv

\* A verdict that is none of success, or is of a delegation without strays.
LEMMA TeamAnswersAre ==
  ASSUME TeamTypes, NEW d \in TeamDelegations, NEW v \in Team!Terminal \cup {"unknown", "native-ack"}, Team!Answers(d, v)
  PROVE  /\ teamTold' \in [TeamDelegations -> SUBSET (Team!Terminal \cup {"native-ack"})]
         /\ teamTold'[d] = teamTold[d] \cup ({v} \ {"unknown"})
         /\ \A e \in TeamDelegations : teamTold[e] \subseteq teamTold'[e] /\ (e # d => teamTold'[e] = teamTold[e])
  BY DEF Team!Answers, TeamTypes, Team!Terminal

\* A step that keeps the evidence, the transcripts and the requests keeps the invariant.
LEMMA TeamStillKeeps ==
  ASSUME TeamApart, TeamInv, TeamSameEvidence, UNCHANGED <<transcript, strays, lost, sent, team>>,
         messages' \in [Children -> SUBSET TeamDelegations], turns' \in [Children -> TeamTurns \cup {Nil}],
         \A c \in Children : /\ (turns'[c] # Nil /\ turns'[c].at = "entered") <=> (turns[c] # Nil /\ turns[c].at = "entered")
                             /\ turns'[c] # Nil => turns[c] # Nil,
         teamTold' \in [TeamDelegations -> SUBSET (Team!Terminal \cup {"native-ack"})],
         \A d \in TeamDelegations \ Team!Recorded : teamTold'[d] = {},
         Team!CompletedIsCovered', teamOpen' \in BOOLEAN, held' \subseteq TeamDelegations, stopping' \subseteq TeamDelegations,
         teamRun' \in [Threads -> TeamRuns],
         \A t \in Threads : \/ teamRun'[t].at = "rest"
                            \/ /\ teamRun'[t].d = teamRun[t].d /\ teamRun'[t].from = teamRun[t].from /\ teamRun[t].at # "rest"
                               /\ teamRun'[t].at \notin {"rest", "board"} => TeamBegun(t)
                               /\ teamRun'[t].at = "sending" => teamRun[t].at = "sending"
  PROVE  TeamInv'
<1>1. /\ TeamDispatchesFit' /\ TeamCallsFit' /\ TeamRequestsFit' /\ TeamStraysFit'
      /\ Team!Recorded' = Team!Recorded
  BY TeamQuietKeeps
<1>2. TeamTypes'
  BY DEF TeamTypes, TeamInv, TeamSameEvidence
<1>3. \A b \in Children : Len(transcript[b]) \in Nat
  BY DEF TeamTypes, TeamInv
<1>4. TeamRunsFit'
  <2>1. \A b \in Children : Len(transcript[b]) \in Nat /\ Len(transcript'[b]) \in Nat /\ Len(transcript[b]) <= Len(transcript'[b])
    BY <1>3
  <2>2. \A t \in Threads : \/ teamRun'[t].at = "rest"
                           \/ /\ teamRun'[t].d = teamRun[t].d /\ teamRun'[t].from = teamRun[t].from /\ teamRun[t].at # "rest"
                              /\ teamRun'[t].at \notin {"rest", "board"} => TeamBegun(t)
    OBVIOUS
  <2> QED BY <1>1, <2>1, <2>2, TeamRunsKeep
<1>5. TeamFreshFits'
  <2>1. ASSUME NEW d \in TeamDelegations \ Existing,
               teamRecords'[d] = Nil \/ (\E t \in Threads : teamRun'[t].at = "sending" /\ teamRun'[t].d = d)
        PROVE  teamRecords[d] = Nil \/ (\E t \in Threads : teamRun[t].at = "sending" /\ teamRun[t].d = d)
    BY <2>1 DEF TeamSameEvidence
  <2> QED BY <2>1, TeamFreshKeeps
<1> QED BY <1>1, <1>2, <1>4, <1>5 DEF TeamInv

\* A window of a transcript shows what is in it.
LEMMA TeamWindowIs ==
  ASSUME NEW S, NEW q \in Seq(S), NEW m \in 1..Len(q), NEW i \in m..Len(q)
  PROVE  /\ i - m + 1 \in DOMAIN SubSeq(q, m, Len(q))
         /\ SubSeq(q, m, Len(q))[i - m + 1] = q[i]
<1>1. DOMAIN SubSeq(q, m, Len(q)) = 1..(Len(q) - m + 1) /\ i - m + 1 \in 1..(Len(q) - m + 1)
  OBVIOUS
<1>2. SubSeq(q, m, Len(q))[i - m + 1] = q[i]
  OBVIOUS
<1> QED BY <1>1, <1>2

\* A receipt of success is read off a transcript in which nothing stray is left.
LEMMA TeamCompletedIs ==
  ASSUME TeamApart, TeamInv, NEW d \in Team!Recorded, teamRecords[d].child # Nil, Team!Inspected(d) = "completed"
  PROVE  d \in strays => d \in lost
<1> SUFFICES ASSUME d \in strays, d \notin lost PROVE FALSE
  OBVIOUS
<1> DEFINE c == Target[d]
           from == teamRecords[d].from
<1>1. /\ d \in TeamDelegations /\ teamRecords[d] \in TeamEntries /\ teamRecords[d].child = c /\ c \in Children
      /\ transcript[c] \in Seq(TeamEvents) /\ from \in Nat \ {0} /\ Len(transcript[c]) \in Nat /\ DOMAIN transcript[c] = 1..Len(transcript[c])
  BY DEF Team!Recorded, TeamInv, TeamTypes, TeamDispatchesFit, TeamApart, TeamEntries
<1>2. /\ turns[c] = Nil /\ Cardinality(Team!Occurs(d, "assistant")) = 1
      /\ teamRecords[d].preSteps = 1 /\ ~teamRecords[d].unconfirmed
      /\ \A i \in Team!Occurs(d, "call") : Team!Window(d)[i].by \in teamRecords[d].gated
  BY <1>1, TeamCounts DEF Team!Inspected, Team!Covered
<1>3. Team!Window(d) = SubSeq(transcript[c], from, Len(transcript[c]))
  BY <1>1 DEF Team!Window
<1>4. ASSUME NEW i \in DOMAIN transcript[c], from <= i
      PROVE  i - from + 1 \in DOMAIN Team!Window(d) /\ Team!Window(d)[i - from + 1] = transcript[c][i]
  <2>1. i \in from..Len(transcript[c]) /\ from \in 1..Len(transcript[c])
    BY <1>1, <1>4
  <2> QED BY <1>1, <1>3, <2>1, TeamWindowIs
<1>5. \A type : \A i \in TeamSince(d, type) : i - from + 1 \in Team!Occurs(d, type) /\ Team!Window(d)[i - from + 1] = transcript[c][i]
  BY <1>1, <1>4 DEF TeamSince, Team!Occurs
<1>6. CASE TeamUnseen(d)
  BY <1>2, <1>5, <1>6 DEF TeamUnseen
<1>7. CASE TeamBeside(d)
  <2>1. ~TeamAsking(d) /\ TeamAdmitted(d)
    BY <1>1, <1>2 DEF TeamAsking, TeamAdmitted
  <2>2. PICK i \in TeamSince(d, "assistant"), j \in TeamSince(d, "assistant") : i # j
    BY <1>7, <2>1 DEF TeamBeside
  <2>3. PICK x : Team!Occurs(d, "assistant") = {x}
    <3>1. IsFiniteSet(Team!Occurs(d, "assistant"))
      <4>1. DOMAIN Team!Window(d) = 1..Len(Team!Window(d)) /\ Len(Team!Window(d)) \in Nat
        BY <1>1, <1>3
      <4>2. IsFiniteSet(1..Len(Team!Window(d)))
        BY <4>1, FS_Interval
      <4> QED BY <4>1, <4>2, FS_Subset DEF Team!Occurs
    <3> QED BY <1>2, <3>1, FS_Singleton
  <2>4. i \in Int /\ j \in Int /\ from \in Int
    BY <1>1, <2>2 DEF TeamSince
  <2> QED BY <1>5, <2>2, <2>3, <2>4
<1> QED BY <1>6, <1>7 DEF TeamStraysFit, TeamInv

\* What is settled keeps the evidence and calls nothing a success that has strays.
LEMMA TeamSettlesKeep ==
  ASSUME TeamApart, TeamInv, NEW d \in Team!Recorded, Team!Settles(d), UNCHANGED <<strays, lost>>
  PROVE  /\ TeamSameEvidence /\ Team!CompletedIsCovered'
         /\ teamTold' \in [TeamDelegations -> SUBSET (Team!Terminal \cup {"native-ack"})]
         /\ \A e \in TeamDelegations \ Team!Recorded : teamTold'[e] = {}
<1>1. d \in TeamDelegations /\ teamRecords[d] \in TeamEntries /\ teamRecords[d] # Nil
  BY DEF Team!Recorded, TeamInv, TeamTypes
<1>2. \A e \in TeamDelegations \ Team!Recorded : teamTold[e] = {}
  BY DEF Team!Recorded, TeamInv, TeamDispatchesFit
<1>3. CASE teamRecords[d].phase = "settled"
  <2>1. teamRecords[d].receipt \in teamTold[d] /\ teamRecords[d].receipt \in Team!Terminal
    <3>1. teamRecords[d].receipt \in teamTold[d]
      BY <1>1, <1>3 DEF TeamInv, TeamDispatchesFit
    <3>2. teamRecords[d].receipt \in TeamVerdicts /\ teamTold[d] \subseteq Team!Terminal \cup {"native-ack"}
      BY <1>1 DEF TeamEntries, TeamInv, TeamTypes
    <3> QED BY <3>1, <3>2 DEF TeamVerdicts, Team!Terminal, TeamApart
  <2>2. teamTold' = teamTold
    <3>1. teamTold' = [teamTold EXCEPT ![d] = @ \cup ({teamRecords[d].receipt} \ {"unknown"})]
      BY <1>3 DEF Team!Settles, Team!Answers
    <3>2. teamTold[d] \cup ({teamRecords[d].receipt} \ {"unknown"}) = teamTold[d]
      BY <2>1
    <3> QED BY <1>1, <3>1, <3>2 DEF TeamInv, TeamTypes
  <2>3. TeamSameEvidence
    BY <1>3, <2>2, TeamUnchangedKeeps DEF Team!Settles, TeamInv
  <2> QED BY <1>2, <2>2, <2>3 DEF TeamInv, TeamTypes, Team!CompletedIsCovered
<1>4. CASE teamRecords[d].phase # "settled"
  <2> DEFINE status == IF teamRecords[d].child = Nil THEN "unknown" ELSE Team!Inspected(d)
             r == [teamRecords[d] EXCEPT !.receipt = status, !.phase = IF status = "unknown" THEN "unknown" ELSE "settled"]
  <2>1. Team!Saved(d, r) /\ Team!Answers(d, status)
    BY <1>4 DEF Team!Settles
  <2>2. status \in {"unknown"} \cup Team!Terminal
    BY DEF Team!Inspected, Team!Terminal
  <2>3. /\ r \in TeamEntries /\ r.child = teamRecords[d].child /\ r.from = teamRecords[d].from /\ r.gated = teamRecords[d].gated
        /\ r.preSteps = teamRecords[d].preSteps /\ r.unconfirmed = teamRecords[d].unconfirmed
        /\ r.receipt = status /\ (r.phase = "settled" => status # "unknown")
    BY <1>1, <2>2 DEF TeamEntries, TeamVerdicts, TeamPhases
  <2> HIDE DEF r
  <2> HIDE DEF status
  <2>4. /\ teamTold' \in [TeamDelegations -> SUBSET (Team!Terminal \cup {"native-ack"})]
        /\ teamTold'[d] = teamTold[d] \cup ({status} \ {"unknown"})
        /\ \A e \in TeamDelegations : teamTold[e] \subseteq teamTold'[e] /\ (e # d => teamTold'[e] = teamTold[e])
    BY <1>1, <2>1, <2>2, TeamAnswersAre DEF TeamInv
  <2>5. TeamSameEvidence
    <3>1. teamRecords[d].child \in {Nil, Target[d]}
      BY <1>1 DEF TeamInv, TeamDispatchesFit
    <3> QED BY <2>1, <2>3, <2>4, <3>1, TeamSavedKeeps DEF TeamInv
  <2>6. status = "completed" => (d \in strays => d \in lost)
    BY TeamCompletedIs DEF status
  <2>7. Team!CompletedIsCovered'
    BY <2>4, <2>6, <1>1 DEF Team!CompletedIsCovered, TeamInv, TeamTypes
  <2> QED BY <1>1, <1>2, <2>4, <2>5, <2>7
<1> QED BY <1>3, <1>4

\* What nothing is said of yet.
LEMMA TeamUntoldIs ==
  ASSUME TeamInv
  PROVE  /\ \A d \in TeamDelegations \ Team!Recorded : teamTold[d] = {}
         /\ \A d \in Team!Recorded : d \in TeamDelegations /\ teamRecords[d] \in TeamEntries /\ teamRecords[d] # Nil
         /\ \A d \in TeamDelegations : teamRecords[d] # Nil => d \in Team!Recorded
         /\ Team!Unsettled \subseteq Team!Recorded
  BY DEF TeamInv, TeamTypes, TeamDispatchesFit, Team!Recorded, Team!Unsettled

\* A delegation that is on record is answered from it.
LEMMA TeamRepeatKeeps == ASSUME TeamApart, TeamInv, NEW d \in TeamDelegations, Team!Repeat(d) PROVE TeamInv'
<1>1. d \in Team!Recorded /\ teamRecords[d] # Nil /\ teamRecords[d].phase = "settled" /\ teamRecords[d] \in TeamEntries
  BY TeamUntoldIs DEF Team!Repeat, Team!Unsettled, Team!Recorded
<1>2. Team!Settles(d)
  BY <1>1 DEF Team!Repeat, Team!Settles, Team!store, Team!native
<1>3. /\ TeamSameEvidence /\ Team!CompletedIsCovered'
      /\ teamTold' \in [TeamDelegations -> SUBSET (Team!Terminal \cup {"native-ack"})]
      /\ \A e \in TeamDelegations \ Team!Recorded : teamTold'[e] = {}
  BY <1>1, <1>2, TeamSettlesKeep DEF Team!Repeat
<1> QED BY <1>3, TeamStillKeeps DEF Team!Repeat, TeamInv, TeamTypes, Team!native, TeamRunsFit, TeamBegun

\* reconcile answers what the transcript says by now.
LEMMA TeamReconcileKeeps == ASSUME TeamApart, TeamInv, NEW d \in TeamDelegations, Team!Reconcile(d) PROVE TeamInv'
<1>1. d \in Team!Recorded /\ Team!Settles(d)
  BY DEF Team!Reconcile
<1>2. /\ TeamSameEvidence /\ Team!CompletedIsCovered'
      /\ teamTold' \in [TeamDelegations -> SUBSET (Team!Terminal \cup {"native-ack"})]
      /\ \A e \in TeamDelegations \ Team!Recorded : teamTold'[e] = {}
  BY <1>1, TeamSettlesKeep DEF Team!Reconcile
<1> QED BY <1>2, TeamStillKeeps DEF Team!Reconcile, TeamInv, TeamTypes, TeamRunsFit, TeamBegun

\* The teammate is idle, and its transcript is read.
LEMMA TeamWaitedKeeps == ASSUME TeamApart, TeamInv, NEW t \in Threads, Team!Waited(t) PROVE TeamInv'
<1>1. teamRun[t].d \in Team!Recorded /\ Team!Settles(teamRun[t].d)
  BY DEF Team!Waited, TeamInv, TeamRunsFit, TeamBegun
<1>2. /\ TeamSameEvidence /\ Team!CompletedIsCovered'
      /\ teamTold' \in [TeamDelegations -> SUBSET (Team!Terminal \cup {"native-ack"})]
      /\ \A e \in TeamDelegations \ Team!Recorded : teamTold'[e] = {}
  BY <1>1, TeamSettlesKeep DEF Team!Waited
<1>3. teamRun' \in [Threads -> TeamRuns] /\ teamRun'[t].at = "rest" /\ \A u \in Threads : u # t => teamRun'[u] = teamRun[u]
  BY DEF Team!Waited, TeamInv, TeamTypes, Team!Resting, TeamRuns
<1> QED BY <1>2, <1>3, TeamStillKeeps DEF Team!Waited, TeamInv, TeamTypes, TeamRunsFit, TeamBegun

\* The teammate of an unsettled delegation is interrupted.
LEMMA TeamCancelRunningKeeps == ASSUME TeamApart, TeamInv, NEW d \in TeamDelegations, Team!CancelRunning(d) PROVE TeamInv'
<1>1. TeamSameEvidence
  BY TeamUnchangedKeeps DEF Team!CancelRunning, TeamInv, Team!store
<1>2. teamRecords[d].child \in Children /\ turns[teamRecords[d].child] \in TeamTurns
  BY TeamUntoldIs DEF Team!CancelRunning, TeamInv, TeamTypes, TeamEntries
<1>3. /\ turns' \in [Children -> TeamTurns \cup {Nil}]
      /\ \A c \in Children : /\ (turns'[c] # Nil /\ turns'[c].at = "entered") <=> (turns[c] # Nil /\ turns[c].at = "entered")
                             /\ turns'[c] # Nil => turns[c] # Nil
  BY <1>2 DEF Team!CancelRunning, TeamInv, TeamTypes, TeamTurns, TeamApart
<1> QED BY <1>1, <1>3, TeamUntoldIs, TeamStillKeeps
        DEF Team!CancelRunning, TeamInv, TeamTypes, Team!CompletedIsCovered, TeamRunsFit, TeamBegun

\* Every other cancellation only reads.
LEMMA TeamCancelAnswersKeep == ASSUME TeamApart, TeamInv, NEW d \in TeamDelegations, Team!CancelAnswers(d) PROVE TeamInv'
<1>1. /\ teamTold' \in [TeamDelegations -> SUBSET (Team!Terminal \cup {"native-ack"})]
      /\ \A e \in TeamDelegations : /\ teamTold[e] \subseteq teamTold'[e]
                                    /\ "completed" \in teamTold'[e] => "completed" \in teamTold[e]
                                    /\ e \notin Team!Recorded => teamTold'[e] = teamTold[e]
  <2>1. CASE Team!Confirms(d)
    <3>1. Team!Answers(d, "native-ack") /\ d \in Team!Recorded
      BY <2>1 DEF Team!CancelAnswers
    <3> QED BY <3>1, TeamAnswersAre DEF TeamInv
  <2>2. CASE ~Team!Confirms(d)
    BY <2>2 DEF Team!CancelAnswers, TeamInv, TeamTypes
  <2> QED BY <2>1, <2>2
<1>2. TeamSameEvidence
  BY <1>1, TeamUnchangedKeeps DEF Team!CancelAnswers, TeamInv, Team!store, Team!native
<1>3. Team!CompletedIsCovered'
  BY <1>1 DEF Team!CancelAnswers, TeamInv, TeamTypes, Team!CompletedIsCovered
<1> QED BY <1>1, <1>2, <1>3, TeamUntoldIs, TeamStillKeeps
        DEF Team!CancelAnswers, Team!native, TeamInv, TeamTypes, TeamRunsFit, TeamBegun

\* A delegation that is no longer held is admitted nothing more.
LEMMA TeamReleasedKeeps == ASSUME TeamApart, TeamInv, NEW d \in TeamDelegations, Team!Released(d) PROVE TeamInv'
<1>1. TeamSameEvidence
  BY TeamUnchangedKeeps DEF Team!Released, TeamInv, Team!store, Team!native
<1> QED BY <1>1, TeamUntoldIs, TeamStillKeeps
        DEF Team!Released, Team!native, TeamInv, TeamTypes, Team!CompletedIsCovered, TeamRunsFit, TeamBegun

\* Hooks come and go without a record being touched.
LEMMA TeamHooksKeep == ASSUME TeamApart, TeamInv, Team!Dispose \/ Team!Recreate PROVE TeamInv'
<1>1. TeamSameEvidence
  BY TeamUnchangedKeeps DEF Team!Dispose, Team!Recreate, TeamInv, Team!store, Team!native
<1> QED BY <1>1, TeamUntoldIs, TeamStillKeeps
        DEF Team!Dispose, Team!Recreate, Team!native, TeamInv, TeamTypes, Team!CompletedIsCovered, TeamRunsFit,
            TeamBegun

\* The board or the store refuses, and the record stays as it is.
LEMMA TeamRefusedKeeps == ASSUME TeamApart, TeamInv, NEW t \in Threads, Team!Refused(t) PROVE TeamInv'
<1>1. TeamSameEvidence
  BY TeamUnchangedKeeps DEF Team!Refused, TeamInv, Team!store, Team!native
<1>2. teamRun' \in [Threads -> TeamRuns] /\ teamRun'[t].at = "rest" /\ \A u \in Threads : u # t => teamRun'[u] = teamRun[u]
  BY DEF Team!Refused, TeamInv, TeamTypes, Team!Resting, TeamRuns
<1> QED BY <1>1, <1>2, TeamUntoldIs, TeamStillKeeps
        DEF Team!Refused, Team!native, TeamInv, TeamTypes, Team!CompletedIsCovered, TeamRunsFit, TeamBegun

\* An execution writes the record of its delegation.
LEMMA TeamSendReturnsKeeps == ASSUME TeamApart, TeamInv, NEW t \in Threads, Team!SendReturns(t) PROVE TeamInv'
<1> DEFINE d == teamRun[t].d
<1> PICK m \in BOOLEAN : m = (d \in Existing)
  <2>1. CASE d \in Existing
    <3>1. TRUE = (d \in Existing)
      BY <2>1
    <3> QED BY <3>1
  <2>2. CASE d \notin Existing
    <3>1. FALSE = (d \in Existing)
      BY <2>2
    <3> QED BY <3>1
  <2> QED BY <2>1, <2>2
<1> DEFINE r == [teamRecords[d] EXCEPT !.child = Target[d], !.message = m, !.phase = "running"]
<1>1. d \in Team!Recorded /\ d \in TeamDelegations /\ teamRecords[d] \in TeamEntries /\ Target[d] \in Children
  BY TeamUntoldIs DEF Team!SendReturns, TeamInv, TeamRunsFit, TeamBegun, TeamApart
<1>2. /\ r \in TeamEntries /\ r.child = Target[d] /\ r.from = teamRecords[d].from /\ r.gated = teamRecords[d].gated
      /\ r.preSteps = teamRecords[d].preSteps /\ r.unconfirmed = teamRecords[d].unconfirmed /\ r.phase = "running"
  BY <1>1 DEF TeamEntries, TeamPhases
<1>3. Team!Saved(d, r) /\ teamTold' = teamTold
  BY DEF Team!SendReturns
<1> HIDE DEF r
<1>4. TeamSameEvidence
  BY <1>1, <1>2, <1>3, TeamSavedKeeps DEF TeamInv
<1>5. /\ teamRun' \in [Threads -> TeamRuns] /\ \A u \in Threads : u # t => teamRun'[u] = teamRun[u]
      /\ teamRun'[t].at = "projecting" /\ teamRun'[t].d = teamRun[t].d /\ teamRun'[t].from = teamRun[t].from /\ teamRun[t].at = "sent"
  BY DEF Team!SendReturns, TeamInv, TeamTypes, TeamRuns
<1> QED BY <1>3, <1>4, <1>5, TeamUntoldIs, TeamStillKeeps
        DEF Team!SendReturns, TeamInv, TeamTypes, Team!CompletedIsCovered, TeamRunsFit, TeamBegun

\* The task is on the board, and its record is saved as it was.
LEMMA TeamProjectedKeeps == ASSUME TeamApart, TeamInv, NEW t \in Threads, Team!Projected(t) PROVE TeamInv'
<1> DEFINE d == teamRun[t].d
<1>1. d \in Team!Recorded /\ d \in TeamDelegations /\ teamRecords[d] \in TeamEntries /\ teamRecords[d] # Nil
  BY TeamUntoldIs DEF Team!Projected, TeamInv, TeamRunsFit, TeamBegun
<1>2. teamRecords[d].child \in {Nil, Target[d]} /\ (teamRecords[d].phase = "settled" => teamRecords[d].receipt \in teamTold[d])
  BY <1>1 DEF TeamInv, TeamDispatchesFit
<1>3. Team!Saved(d, teamRecords[d]) /\ teamTold' = teamTold
  BY DEF Team!Projected
<1>4. TeamSameEvidence
  BY <1>1, <1>2, <1>3, TeamSavedKeeps DEF TeamInv
<1>5. /\ teamRun' \in [Threads -> TeamRuns] /\ \A u \in Threads : u # t => teamRun'[u] = teamRun[u]
      /\ teamRun'[t].at = "waiting" /\ teamRun'[t].d = teamRun[t].d /\ teamRun'[t].from = teamRun[t].from /\ teamRun[t].at = "projecting"
  BY DEF Team!Projected, TeamInv, TeamTypes, TeamRuns
<1> QED BY <1>3, <1>4, <1>5, TeamUntoldIs, TeamStillKeeps
        DEF Team!Projected, TeamInv, TeamTypes, Team!CompletedIsCovered, TeamRunsFit, TeamBegun

\* A native call that throws leaves the dispatch on record, with an unknown outcome.
LEMMA TeamNativeFailsKeeps == ASSUME TeamApart, TeamInv, NEW t \in Threads, Team!NativeFails(t) PROVE TeamInv'
<1> DEFINE d == teamRun[t].d
           r == [teamRecords[d] EXCEPT !.phase = "unknown", !.receipt = "unknown"]
<1>1. d \in Team!Recorded /\ d \in TeamDelegations /\ teamRecords[d] \in TeamEntries /\ teamRecords[d] # Nil
  BY TeamUntoldIs DEF Team!NativeFails, TeamInv, TeamRunsFit, TeamBegun
<1>2. /\ r \in TeamEntries /\ r.child = teamRecords[d].child /\ r.from = teamRecords[d].from /\ r.gated = teamRecords[d].gated
      /\ r.preSteps = teamRecords[d].preSteps /\ r.unconfirmed = teamRecords[d].unconfirmed /\ r.phase = "unknown"
  BY <1>1 DEF TeamEntries, TeamPhases, TeamVerdicts
<1>3. Team!Saved(d, r) /\ teamTold' = teamTold /\ teamRecords[d].child \in {Nil, Target[d]}
  BY <1>1 DEF Team!NativeFails, TeamInv, TeamDispatchesFit
<1> HIDE DEF r
<1>4. TeamSameEvidence
  BY <1>1, <1>2, <1>3, TeamSavedKeeps DEF TeamInv
<1>5. teamRun' \in [Threads -> TeamRuns] /\ teamRun'[t].at = "rest" /\ \A u \in Threads : u # t => teamRun'[u] = teamRun[u]
  BY DEF Team!NativeFails, TeamInv, TeamTypes, Team!Resting, TeamRuns
<1> QED BY <1>3, <1>4, <1>5, TeamUntoldIs, TeamStillKeeps
        DEF Team!NativeFails, TeamInv, TeamTypes, Team!CompletedIsCovered, TeamRunsFit, TeamBegun

\* The result of a call is counted to the delegation its teammate works for.
LEMMA TeamToolResultKeeps == ASSUME TeamApart, TeamInv, NEW x \in tools, Team!ToolResult(x) PROVE TeamInv'
<1>1. TeamSameEvidence
  <2>1. CASE ~(teamOpen /\ Team!RecordOf(x.child) # {})
    <3>1. tools' = tools \ {x} /\ UNCHANGED teamRecords
      BY <2>1 DEF Team!ToolResult
    <3>2. /\ tools' \subseteq TeamCalls
          /\ \A y \in tools' : \E z \in tools : z.call = y.call /\ z.d = y.d /\ (y.at = "gate" => z.at = "gate")
      BY <3>1 DEF TeamInv, TeamTypes
    <3> QED BY <3>1, <3>2 DEF TeamSameEvidence, Team!ToolResult, TeamInv, TeamTypes, TeamDispatchesFit
  <2>2. CASE teamOpen /\ Team!RecordOf(x.child) # {}
    <3>1. PICK d \in Team!RecordOf(x.child) :
            /\ teamRecords' = [teamRecords EXCEPT ![d].child = x.child, ![d].results = @ \cup {x.call}]
            /\ tools' = {IF y.d = d THEN [y EXCEPT !.current = FALSE] ELSE y : y \in tools \ {x}}
      BY <2>2 DEF Team!ToolResult
    <3>2. /\ d \in TeamDelegations /\ teamRecords[d] \in TeamEntries /\ Target[d] = x.child /\ x \in TeamCalls
          /\ teamRecords[d].phase # "settled"
      BY TeamUntoldIs DEF Team!RecordOf, Team!Unsettled, TeamInv, TeamTypes
    <3>3. /\ tools' \subseteq TeamCalls
          /\ \A y \in tools' : \E z \in tools : z.call = y.call /\ z.d = y.d /\ (y.at = "gate" => z.at = "gate")
      <4> SUFFICES ASSUME NEW y \in tools'
                   PROVE  y \in TeamCalls /\ \E z \in tools : z.call = y.call /\ z.d = y.d /\ (y.at = "gate" => z.at = "gate")
        OBVIOUS
      <4>1. PICK z \in tools : y = IF z.d = d THEN [z EXCEPT !.current = FALSE] ELSE z
        BY <3>1
      <4>2. z \in TeamCalls
        BY DEF TeamInv, TeamTypes
      <4>3. y \in TeamCalls /\ z.call = y.call /\ z.d = y.d /\ y.at = z.at
        BY <4>1, <4>2 DEF TeamCalls
      <4> QED BY <4>3
    <3>4. /\ teamRecords'[d] \in TeamEntries /\ teamRecords'[d].child = x.child /\ teamRecords'[d].from = teamRecords[d].from
          /\ teamRecords'[d].gated = teamRecords[d].gated /\ teamRecords'[d].preSteps = teamRecords[d].preSteps
          /\ teamRecords'[d].unconfirmed = teamRecords[d].unconfirmed /\ teamRecords'[d].phase # "settled"
          /\ \A e \in TeamDelegations : e # d => teamRecords'[e] = teamRecords[e]
          /\ teamRecords' \in [TeamDelegations -> TeamEntries \cup {Nil}]
      BY <3>1, <3>2 DEF TeamEntries, TeamCalls, TeamInv, TeamTypes
    <3>5. teamTold' = teamTold
      BY DEF Team!ToolResult
    <3>6. ASSUME NEW e \in TeamDelegations
          PROVE  /\ teamRecords'[e] = Nil <=> teamRecords[e] = Nil
                 /\ teamRecords[e] # Nil => /\ teamRecords'[e].child \in {Nil, Target[e]}
                                            /\ teamRecords'[e].from = teamRecords[e].from
                                            /\ teamRecords'[e].gated = teamRecords[e].gated
                                            /\ teamRecords'[e].preSteps = teamRecords[e].preSteps
                                            /\ teamRecords'[e].unconfirmed = teamRecords[e].unconfirmed
                                            /\ teamRecords'[e].phase = "settled" => teamRecords'[e].receipt \in teamTold'[e]
      <4>1. CASE e = d
        BY <3>2, <3>4, <4>1 DEF TeamApart
      <4>2. CASE e # d
        BY <3>4, <3>5, <4>2 DEF TeamInv, TeamDispatchesFit
      <4> QED BY <4>1, <4>2
    <3> QED BY <3>3, <3>4, <3>6 DEF TeamSameEvidence
  <2> QED BY <2>1, <2>2
<1> QED BY <1>1, TeamUntoldIs, TeamStillKeeps
        DEF Team!ToolResult, TeamInv, TeamTypes, Team!CompletedIsCovered, TeamRunsFit, TeamBegun

\* What is admitted takes note of where its part of the transcript will begin.
LEMMA TeamAdmitKeeps == ASSUME TeamApart, TeamInv, NEW t \in Threads, NEW d \in TeamDelegations, Team!Admit(t, d) PROVE TeamInv'
<1>1. TeamSameEvidence
  BY TeamUnchangedKeeps DEF Team!Admit, TeamInv, Team!store, Team!native
<1>2. /\ TeamDispatchesFit' /\ TeamCallsFit' /\ TeamRequestsFit' /\ TeamStraysFit'
      /\ Team!Recorded' = Team!Recorded
  BY <1>1, TeamUntoldIs, TeamQuietKeeps DEF Team!Admit, Team!native, TeamInv, TeamTypes
<1>3. Len(transcript[Target[d]]) \in Nat /\ Target[d] \in Children
  BY DEF TeamInv, TeamTypes, TeamApart
<1> DEFINE from == IF d \in Existing THEN Len(transcript[Target[d]]) + 1 ELSE 1
<1>4. from \in 1..Len(transcript[Target[d]]) + 1 /\ teamRun' = [teamRun EXCEPT ![t] = [at |-> "board", d |-> d, from |-> from]]
  BY <1>3 DEF Team!Admit
<1> HIDE DEF from
<1>5. /\ teamRun' \in [Threads -> TeamRuns] /\ \A u \in Threads : u # t => teamRun'[u] = teamRun[u]
      /\ teamRun'[t].at = "board" /\ teamRun'[t].d = d /\ teamRun'[t].from = from
  BY <1>3, <1>4 DEF TeamInv, TeamTypes, TeamRuns
<1>6. TeamRunsFit'
  BY <1>2, <1>4, <1>5 DEF TeamRunsFit, TeamBegun, TeamInv, Team!Admit, Team!native
<1>7. TeamFreshFits'
  BY <1>5 DEF TeamFreshFits, Team!Admit, Team!native, Team!store, TeamInv
<1>8. TeamTypes'
  BY <1>5 DEF TeamTypes, TeamInv, Team!Admit, Team!native, Team!store
<1>9. Team!CompletedIsCovered'
  BY DEF Team!CompletedIsCovered, TeamInv, Team!Admit
<1> QED BY <1>2, <1>6, <1>7, <1>8, <1>9 DEF TeamInv

\* A turn goes on, begins or ends and says so in the transcript.
LEMMA TeamTurnKeeps ==
  ASSUME TeamApart, TeamInv, UNCHANGED <<teamOpen, held, teamRecords, teamRun, team, tools, sent, stopping, teamTold, strays, lost>>,
         messages' \in [Children -> SUBSET TeamDelegations],
         NEW c \in Children, NEW e \in TeamEvents, NEW x \in TeamTurns \cup {Nil},
         e.type # "call", transcript' = [transcript EXCEPT ![c] = Append(@, e)],
         turns' = [turns EXCEPT ![c] = x], x # Nil => x.at # "entered", c \in team,
         turns[c] # Nil /\ turns[c].at = "entered" => e.type = "assistant"
  PROVE  TeamInv'
<1>1. /\ TeamDispatchesFit' /\ TeamCallsFit' /\ TeamRequestsFit' /\ TeamStraysFit'
      /\ transcript' \in [Children -> Seq(TeamEvents)] /\ turns' \in [Children -> TeamTurns \cup {Nil}]
      /\ \A b \in Children : Len(transcript[b]) <= Len(transcript'[b])
  BY TeamGrowthKeeps
<1>2. TeamTypes' /\ Team!Recorded' = Team!Recorded
  BY <1>1 DEF TeamTypes, TeamInv, Team!Recorded
<1>3. TeamRunsFit'
  <2>1. \A b \in Children : Len(transcript[b]) \in Nat /\ Len(transcript'[b]) \in Nat
    BY <1>1 DEF TeamTypes, TeamInv
  <2>2. teamRun' \in [Threads -> TeamRuns]
    BY <1>2 DEF TeamTypes
  <2>3. \A t \in Threads : \/ teamRun'[t].at = "rest"
                           \/ /\ teamRun'[t].d = teamRun[t].d /\ teamRun'[t].from = teamRun[t].from /\ teamRun[t].at # "rest"
                              /\ teamRun'[t].at \notin {"rest", "board"} => TeamBegun(t)
    BY DEF TeamBegun
  <2> QED BY <1>1, <1>2, <2>1, <2>2, <2>3, TeamRunsKeep
<1>4. TeamFreshFits'
  <2>1. \A b \in Children : turns'[b] # Nil => turns[b] # Nil \/ b \in team
    BY DEF TeamInv, TeamTypes
  <2> QED BY <2>1, TeamFreshKeeps
<1>5. Team!CompletedIsCovered'
  BY DEF Team!CompletedIsCovered, TeamInv
<1> QED BY <1>1, <1>2, <1>3, <1>4, <1>5 DEF TeamInv

\* A message of the inbox, or of a user, begins a turn.
LEMMA TeamTurnStartsKeeps ==
  ASSUME TeamApart, TeamInv, NEW c \in Children, NEW m \in TeamDelegations \cup {"user"}, Team!TurnStarts(c, m)
  PROVE  TeamInv'
<1> DEFINE e == [type |-> "message", by |-> m]
           x == [by |-> m, at |-> "new", abort |-> FALSE]
<1>1. e \in TeamEvents /\ e.type = "message" /\ x \in TeamTurns /\ x.at = "new"
  BY DEF TeamEvents, TeamTurns
<1>2. messages' \in [Children -> SUBSET TeamDelegations]
  BY DEF Team!TurnStarts, TeamInv, TeamTypes
<1>3. transcript' = [transcript EXCEPT ![c] = Append(@, e)] /\ turns' = [turns EXCEPT ![c] = x] /\ turns[c] = Nil /\ c \in team
  BY DEF Team!TurnStarts
<1>4. UNCHANGED <<teamOpen, held, teamRecords, teamRun, team, tools, sent, stopping, teamTold, strays, lost>>
  BY DEF Team!TurnStarts, Team!store
<1> HIDE DEF e, x
<1> QED BY <1>1, <1>2, <1>3, <1>4, TeamTurnKeeps

\* The model answers, or fails and leaves its attempt.
LEMMA TeamAssistantKeeps ==
  ASSUME TeamApart, TeamInv, NEW c \in Children, NEW ok \in BOOLEAN, Team!Assistant(c, ok)
  PROVE  TeamInv'
<1> DEFINE e == [type |-> "assistant", by |-> turns[c].by]
           x == [turns[c] EXCEPT !.at = IF ok THEN "answered" ELSE "failed"]
<1>1. turns[c] # Nil /\ turns[c] \in TeamTurns /\ c \in team
  BY DEF Team!Assistant, TeamInv, TeamTypes, TeamFreshFits
<1>2. e \in TeamEvents /\ e.type = "assistant" /\ x \in TeamTurns /\ x.at # "entered"
  BY <1>1 DEF TeamEvents, TeamTurns
<1>3. transcript' = [transcript EXCEPT ![c] = Append(@, e)] /\ turns' = [turns EXCEPT ![c] = x]
  BY DEF Team!Assistant, TeamInv, TeamTypes
<1>4. UNCHANGED <<teamOpen, held, teamRecords, teamRun, team, tools, sent, stopping, teamTold, strays, lost, messages>>
  BY DEF Team!Assistant, Team!store
<1>5. messages' \in [Children -> SUBSET TeamDelegations]
  BY <1>4 DEF TeamInv, TeamTypes
<1> HIDE DEF e, x
<1> QED BY <1>1, <1>2, <1>3, <1>4, <1>5, TeamTurnKeeps

\* A turn ends with its event in the transcript.
LEMMA TeamTurnEndsKeeps == ASSUME TeamApart, TeamInv, NEW c \in Children, Team!TurnEnds(c) PROVE TeamInv'
<1>1. turns[c] # Nil /\ turns[c] \in TeamTurns /\ c \in team /\ turns[c].at # "entered"
  BY DEF Team!TurnEnds, TeamInv, TeamTypes, TeamFreshFits
<1>2. PICK kind \in TeamEnds : transcript' = [transcript EXCEPT ![c] = Append(@, [type |-> "end", by |-> kind])]
  BY DEF Team!TurnEnds, TeamEnds
<1> DEFINE e == [type |-> "end", by |-> kind]
<1>3. e \in TeamEvents /\ e.type = "end"
  BY DEF TeamEvents
<1>4. /\ UNCHANGED <<teamOpen, held, teamRecords, teamRun, team, tools, sent, stopping, teamTold, strays, lost, messages>>
      /\ turns' = [turns EXCEPT ![c] = Nil]
  BY DEF Team!TurnEnds, Team!store
<1>5. messages' \in [Children -> SUBSET TeamDelegations]
  BY <1>4 DEF TeamInv, TeamTypes
<1> HIDE DEF e
<1> QED BY <1>1, <1>2, <1>3, <1>4, <1>5, TeamTurnKeeps DEF e

\* A teammate that is made starts on its prompt; a member finds it in its inbox.
LEMMA TeamArrivesKeeps == ASSUME TeamApart, TeamInv, NEW t \in Threads, Team!Arrives(t) PROVE TeamInv'
<1> PICK d : d = teamRun[t].d
  OBVIOUS
<1> PICK c : c = Target[d]
  OBVIOUS
<1>a. teamRun[t].at = "sending" /\ teamRun' = [teamRun EXCEPT ![t].at = "sent"]
  BY DEF Team!Arrives
<1>0. /\ IF d \in Existing
         THEN messages' = [messages EXCEPT ![c] = @ \cup {d}] /\ UNCHANGED <<team, turns, transcript>>
         ELSE /\ team' = team \cup {c}
              /\ turns' = [turns EXCEPT ![c] = [by |-> d, at |-> "new", abort |-> FALSE]]
              /\ transcript' = [transcript EXCEPT ![c] = Append(@, [type |-> "message", by |-> d])]
              /\ UNCHANGED messages
  BY DEF Team!Arrives
<1>1. d \in Team!Recorded /\ d \in TeamDelegations /\ teamRecords[d] # Nil /\ c \in Children /\ c \in DOMAIN transcript
  BY <1>a, TeamUntoldIs DEF TeamInv, TeamTypes, TeamRunsFit, TeamBegun, TeamApart
<1>2. /\ teamRun' \in [Threads -> TeamRuns] /\ \A u \in Threads : u # t => teamRun'[u] = teamRun[u]
      /\ teamRun'[t].at = "sent" /\ teamRun'[t].d = teamRun[t].d /\ teamRun'[t].from = teamRun[t].from /\ teamRun[t].at = "sending"
  BY <1>a DEF TeamInv, TeamTypes, TeamRuns
<1>3. UNCHANGED <<teamOpen, held, teamRecords, tools, sent, stopping, teamTold, strays, lost>>
  BY DEF Team!Arrives, Team!store
<1>4. CASE d \in Existing
  <2>1. messages' \in [Children -> SUBSET TeamDelegations] /\ UNCHANGED <<team, turns, transcript>>
    <3>1. messages' = [messages EXCEPT ![c] = @ \cup {d}] /\ UNCHANGED <<team, turns, transcript>>
      BY <1>0, <1>4
    <3> QED BY <1>1, <3>1 DEF TeamInv, TeamTypes
  <2>2. TeamSameEvidence
    BY <1>3, TeamUnchangedKeeps DEF TeamInv
  <2> QED BY <1>2, <1>3, <2>1, <2>2, TeamUntoldIs, TeamStillKeeps
          DEF TeamInv, TeamTypes, Team!CompletedIsCovered, TeamRunsFit, TeamBegun
<1>5. CASE d \notin Existing
  <2> DEFINE e == [type |-> "message", by |-> d]
             x == [by |-> d, at |-> "new", abort |-> FALSE]
  <2>1. /\ team' = team \cup {c} /\ turns' = [turns EXCEPT ![c] = x] /\ transcript' = [transcript EXCEPT ![c] = Append(@, e)]
        /\ UNCHANGED messages
    BY <1>0, <1>5
  <2>2. e \in TeamEvents /\ e.type = "message" /\ x \in TeamTurns /\ x.at = "new"
    BY <1>1 DEF TeamEvents, TeamTurns
  <2>3. c \notin team /\ turns[c] = Nil
    BY <1>1, <1>2, <1>5 DEF TeamFreshFits, TeamInv
  <2> HIDE DEF e, x
  <2>4. /\ TeamDispatchesFit' /\ TeamCallsFit' /\ TeamRequestsFit' /\ TeamStraysFit'
        /\ transcript' \in [Children -> Seq(TeamEvents)] /\ turns' \in [Children -> TeamTurns \cup {Nil}]
        /\ \A b \in Children : Len(transcript[b]) <= Len(transcript'[b])
    BY <1>1, <1>3, <2>1, <2>2, <2>3, TeamGrowthKeeps
  <2>5. TeamTypes' /\ Team!Recorded' = Team!Recorded
    BY <1>1, <1>2, <1>3, <2>1, <2>4 DEF TeamTypes, TeamInv, Team!Recorded
  <2>6. TeamRunsFit'
    <3>1. \A b \in Children : Len(transcript[b]) \in Nat /\ Len(transcript'[b]) \in Nat
      BY <2>4 DEF TeamTypes, TeamInv
    <3>2. \A u \in Threads : \/ teamRun'[u].at = "rest"
                             \/ /\ teamRun'[u].d = teamRun[u].d /\ teamRun'[u].from = teamRun[u].from /\ teamRun[u].at # "rest"
                                /\ teamRun'[u].at \notin {"rest", "board"} => TeamBegun(u)
      BY <1>2 DEF TeamBegun
    <3> QED BY <1>2, <2>4, <2>5, <3>1, <3>2, TeamRunsKeep
  <2>7. TeamFreshFits'
    <3>1. ASSUME NEW b \in Children, turns'[b] # Nil PROVE b \in team'
      BY <2>1, <3>1 DEF TeamFreshFits, TeamInv, TeamTypes
    <3>2. ASSUME NEW f \in TeamDelegations \ Existing,
                 teamRecords'[f] = Nil \/ (\E u \in Threads : teamRun'[u].at = "sending" /\ teamRun'[u].d = f)
          PROVE  Target[f] \notin team'
      <4>1. f # d
        <5>1. CASE teamRecords'[f] = Nil
          BY <1>1, <1>3, <5>1
        <5>2. CASE \E u \in Threads : teamRun'[u].at = "sending" /\ teamRun'[u].d = f
          BY <1>2, <5>2 DEF TeamRunsFit, TeamInv, TeamBegun
        <5> QED BY <3>2, <5>1, <5>2
      <4>2. Target[f] # c
        BY <1>1, <1>5, <4>1 DEF TeamApart
      <4>3. teamRecords[f] = Nil \/ (\E u \in Threads : teamRun[u].at = "sending" /\ teamRun[u].d = f)
        BY <1>2, <1>3, <3>2
      <4> QED BY <2>1, <4>2, <4>3 DEF TeamFreshFits, TeamInv
    <3> QED BY <3>1, <3>2 DEF TeamFreshFits
  <2>8. Team!CompletedIsCovered'
    BY <1>3 DEF Team!CompletedIsCovered, TeamInv
  <2> QED BY <2>4, <2>5, <2>6, <2>7, <2>8 DEF TeamInv
<1> QED BY <1>4, <1>5

\* The record comes before the call.
LEMMA TeamDispatchKeeps == ASSUME TeamApart, TeamInv, NEW t \in Threads, Team!Dispatch(t) PROVE TeamInv'
<1> PICK d : d = teamRun[t].d
  OBVIOUS
<1>1. d \in TeamDelegations /\ Target[d] \in Children /\ teamRun[t].from \in 1..Len(transcript[Target[d]]) + 1 /\ teamRun[t].at = "board"
      /\ teamRun[t].from \in Nat \ {0} /\ Len(transcript[Target[d]]) \in Nat
  BY DEF Team!Dispatch, TeamInv, TeamTypes, TeamRunsFit, TeamApart
<1>2. UNCHANGED <<teamOpen, held, team, turns, messages, transcript, stopping, teamTold, strays, lost>>
  BY DEF Team!Dispatch
<1>3. CASE UNCHANGED <<teamRecords, tools, sent>> /\ teamRun' = [teamRun EXCEPT ![t] = Team!Resting]
  <2>1. TeamSameEvidence
    BY <1>2, <1>3, TeamUnchangedKeeps DEF TeamInv
  <2>2. teamRun' \in [Threads -> TeamRuns] /\ teamRun'[t].at = "rest" /\ \A u \in Threads : u # t => teamRun'[u] = teamRun[u]
    BY <1>3 DEF TeamInv, TeamTypes, Team!Resting, TeamRuns
  <2> QED BY <1>2, <1>3, <2>1, <2>2, TeamUntoldIs, TeamStillKeeps
          DEF TeamInv, TeamTypes, Team!CompletedIsCovered, TeamRunsFit, TeamBegun
<1>4. CASE /\ teamRecords[d] = Nil /\ Team!Saved(d, Team!NewRecord(d, teamRun[t].from))
           /\ sent' = [sent EXCEPT ![d] = @ + 1] /\ teamRun' = [teamRun EXCEPT ![t].at = "sending"]
  <2> DEFINE r == Team!NewRecord(d, teamRun[t].from)
  <2>1. /\ r \in TeamEntries /\ r.from = teamRun[t].from /\ r.child \in {Nil, Target[d]} /\ r.phase = "prepared"
        /\ r.preSteps = 0 /\ r.gated = {} /\ r # Nil
    <3> DEFINE child == IF d \in Existing THEN Target[d] ELSE Nil
    <3>1. child \in Children \cup {Nil} /\ child \in {Nil, Target[d]}
      BY <1>1
    <3>2. r = [phase |-> "prepared", child |-> child, from |-> teamRun[t].from, message |-> FALSE,
               receipt |-> Nil, preSteps |-> 0, unconfirmed |-> FALSE, gated |-> {}, results |-> {}]
      BY DEF Team!NewRecord
    <3> HIDE DEF child, r
    <3>3. r \in TeamEntries
      BY <1>1, <3>1, <3>2 DEF TeamEntries, TeamPhases, TeamVerdicts
    <3> QED BY <3>1, <3>2, <3>3 DEF TeamApart
  <2> HIDE DEF r
  <2>2. /\ teamRecords' \in [TeamDelegations -> TeamEntries \cup {Nil}]
        /\ teamRecords'[d] = r
        /\ \A e \in TeamDelegations : e # d => teamRecords'[e] = teamRecords[e]
        /\ tools' \subseteq TeamCalls
        /\ \A y \in tools' : \E x \in tools : x.call = y.call /\ x.d = y.d /\ x.at = y.at
    BY <1>1, <1>4, <2>1, TeamSavedIs DEF TeamInv, r
  <2>3. /\ teamRun' \in [Threads -> TeamRuns] /\ \A u \in Threads : u # t => teamRun'[u] = teamRun[u]
        /\ teamRun'[t].at = "sending" /\ teamRun'[t].d = d /\ teamRun'[t].from = teamRun[t].from
    BY <1>4 DEF TeamInv, TeamTypes, TeamRuns
  <2>4. /\ sent' \in [TeamDelegations -> Nat] /\ sent'[d] = sent[d] + 1 /\ \A e \in TeamDelegations : e # d => sent'[e] = sent[e]
    BY <1>1, <1>4 DEF TeamInv, TeamTypes
  <2>5. d \notin Team!Recorded /\ d \notin strays /\ teamTold[d] = {} /\ sent[d] = 0
    BY <1>1, <1>4 DEF Team!Recorded, TeamInv, TeamDispatchesFit
  <2>6. Team!Recorded' = Team!Recorded \cup {d}
    BY <1>1, <2>1, <2>2 DEF Team!Recorded
  <2>7. TeamTypes'
    BY <1>2, <2>2, <2>3, <2>4 DEF TeamTypes, TeamInv
  <2>8. TeamRunsFit'
    BY <1>1, <1>2, <2>3, <2>5, <2>6 DEF TeamRunsFit, TeamBegun, TeamInv
  <2>9. TeamDispatchesFit'
    <3> SUFFICES ASSUME NEW e \in TeamDelegations
                 PROVE  /\ sent'[e] = IF teamRecords'[e] = Nil THEN 0 ELSE 1
                        /\ teamRecords'[e] = Nil => teamTold'[e] = {} /\ e \notin strays'
                        /\ teamRecords'[e] # Nil => /\ teamRecords'[e].child \in {Nil, Target[e]}
                                                    /\ teamRecords'[e].from <= Len(transcript'[Target[e]]) + 1
                                                    /\ teamRecords'[e].phase = "settled" => teamRecords'[e].receipt \in teamTold'[e]
      BY DEF TeamDispatchesFit
    <3>1. CASE e = d
      BY <1>1, <1>2, <2>1, <2>2, <2>4, <2>5, <3>1
    <3>2. CASE e # d
      BY <1>2, <2>2, <2>4, <3>2 DEF TeamDispatchesFit, TeamInv
    <3> QED BY <3>1, <3>2
  <2>10. TeamFreshFits'
    <3>1. ASSUME NEW f \in TeamDelegations \ Existing,
                 teamRecords'[f] = Nil \/ (\E u \in Threads : teamRun'[u].at = "sending" /\ teamRun'[u].d = f)
          PROVE  teamRecords[f] = Nil \/ (\E u \in Threads : teamRun[u].at = "sending" /\ teamRun[u].d = f)
      BY <1>4, <2>1, <2>2, <2>3, <3>1
    <3> QED BY <1>2, <3>1, TeamFreshKeeps
  <2>11. TeamMade' = TeamMade
    BY <1>2 DEF TeamMade
  <2>12. TeamCallsFit'
    <3>1. \A x \in tools' : x.call \in TeamMade' /\ (x.at = "gate" => x.d \in Team!Recorded')
      BY <2>2, <2>6, <2>11 DEF TeamCallsFit, TeamInv
    <3>2. \A e \in Team!Recorded' : teamRecords'[e].gated \subseteq TeamMade'
      BY <2>1, <2>2, <2>6, <2>11 DEF TeamCallsFit, TeamInv, Team!Recorded
    <3> QED BY <3>1, <3>2 DEF TeamCallsFit
  <2>13. ASSUME NEW e \in Team!Recorded
         PROVE  /\ TeamAsking(e)' <=> TeamAsking(e)
                /\ TeamAdmitted(e)' <=> TeamAdmitted(e)
                /\ \A type : TeamSince(e, type)' = TeamSince(e, type)
                /\ teamRecords'[e] = teamRecords[e]
    <3>1. e \in TeamDelegations /\ e # d /\ Target[e] \in Children
      BY <2>5 DEF Team!Recorded, TeamApart
    <3> QED BY <1>2, <2>2, <3>1 DEF TeamAsking, TeamAdmitted, TeamSince
  <2>14. TeamRequestsFit'
    <3>1. ~TeamAdmitted(d)'
      BY <2>1, <2>2 DEF TeamAdmitted
    <3> QED BY <1>2, <2>6, <2>13, <3>1 DEF TeamRequestsFit, TeamInv
  <2>15. TeamStraysFit'
    <3> SUFFICES ASSUME NEW e \in strays \ lost PROVE TeamUnseen(e)' \/ TeamBeside(e)'
      BY <1>2 DEF TeamStraysFit
    <3>1. e \in Team!Recorded
      BY <2>5 DEF TeamInv, TeamTypes, TeamDispatchesFit, Team!Recorded
    <3>2. CASE TeamBeside(e)
      BY <2>13, <3>1, <3>2 DEF TeamBeside
    <3>3. CASE TeamUnseen(e)
      <4>1. PICK i \in TeamSince(e, "call") : LET k == transcript[Target[e]][i].by
                                              IN k \notin teamRecords[e].gated /\ \A x \in tools : x.call = k => x.at # "gate"
        BY <3>3 DEF TeamUnseen
      <4>2. i \in TeamSince(e, "call")' /\ teamRecords'[e].gated = teamRecords[e].gated
        BY <2>13, <3>1, <4>1
      <4> QED BY <1>2, <2>2, <4>1, <4>2 DEF TeamUnseen
    <3> QED BY <3>2, <3>3 DEF TeamStraysFit, TeamInv
  <2>16. Team!CompletedIsCovered'
    BY <1>2 DEF Team!CompletedIsCovered, TeamInv
  <2> QED BY <2>7, <2>8, <2>9, <2>10, <2>12, <2>14, <2>15, <2>16 DEF TeamInv
<1> QED BY <1>3, <1>4 DEF Team!Dispatch, Team!IsUnrecorded

\* A call without its hook stays so, whatever comes to a gate or passes one.
LEMMA TeamUnseenStays ==
  ASSUME NEW d \in TeamDelegations, TeamUnseen(d),
         \A i \in TeamSince(d, "call") : /\ i \in TeamSince(d, "call")' /\ transcript'[Target[d]][i] = transcript[Target[d]][i]
                                         /\ transcript[Target[d]][i].by \in teamRecords'[d].gated =>
                                              \/ transcript[Target[d]][i].by \in teamRecords[d].gated
                                              \/ \E x \in tools : x.at = "gate" /\ x.call = transcript[Target[d]][i].by
                                         /\ \A y \in tools' : y.at = "gate" /\ y.call = transcript[Target[d]][i].by
                                              => \E x \in tools : x.at = "gate" /\ x.call = y.call
  PROVE  TeamUnseen(d)'
<1>1. PICK i \in TeamSince(d, "call") : LET k == transcript[Target[d]][i].by
                                        IN k \notin teamRecords[d].gated /\ \A x \in tools : x.call = k => x.at # "gate"
  BY DEF TeamUnseen
<1>2. i \in TeamSince(d, "call")' /\ transcript'[Target[d]][i] = transcript[Target[d]][i]
  BY <1>1
<1>3. transcript[Target[d]][i].by \notin teamRecords'[d].gated
  BY <1>1
<1>4. \A y \in tools' : y.call = transcript[Target[d]][i].by => y.at # "gate"
  BY <1>1
<1> QED BY <1>2, <1>3, <1>4 DEF TeamUnseen

\* A lost process leaves records and transcripts; a request that was on its way is lost.
LEMMA TeamCrashKeeps == ASSUME TeamApart, TeamInv, Team!Crash PROVE TeamInv'
<1>1. /\ UNCHANGED <<teamRecords, transcript, team, messages, held, sent, teamTold, strays>> /\ tools' = {} /\ stopping' = {} /\ teamOpen' = TRUE
      /\ turns' = [c \in Children |-> Nil] /\ teamRun' = [t \in Threads |-> Team!Resting]
      /\ lost' = lost \cup {d \in Team!Recorded : TeamAsking(d)}
  BY DEF Team!Crash, Team!store, TeamAsking
<1>2. TeamTypes' /\ Team!Recorded' = Team!Recorded
  BY <1>1 DEF TeamTypes, TeamInv, Team!Resting, TeamRuns, Team!Recorded
<1>3. TeamRunsFit'
  BY <1>1 DEF TeamRunsFit, TeamBegun, Team!Resting
<1>4. TeamDispatchesFit' /\ TeamFreshFits'
  BY <1>1 DEF TeamDispatchesFit, TeamFreshFits, TeamInv, Team!Resting
<1>5. TeamCallsFit'
  <2>1. TeamMade' = TeamMade
    BY <1>1 DEF TeamMade
  <2> QED BY <1>1, <1>2, <2>1 DEF TeamCallsFit, TeamInv
<1>6. ASSUME NEW d \in Team!Recorded
      PROVE  /\ ~TeamAsking(d)' /\ (TeamAdmitted(d)' <=> TeamAdmitted(d))
             /\ \A type : TeamSince(d, type)' = TeamSince(d, type)
  <2>1. Target[d] \in Children
    BY DEF Team!Recorded, TeamApart
  <2> QED BY <1>1, <2>1 DEF TeamAsking, TeamAdmitted, TeamSince
<1>7. TeamRequestsFit'
  BY <1>1, <1>2, <1>6 DEF TeamRequestsFit, TeamInv
<1>8. TeamStraysFit'
  <2> SUFFICES ASSUME NEW d \in strays' \ lost' PROVE TeamUnseen(d)' \/ TeamBeside(d)'
    BY DEF TeamStraysFit
  <2>1. d \in strays \ lost /\ d \in TeamDelegations /\ d \in Team!Recorded /\ ~TeamAsking(d)
    BY <1>1 DEF TeamInv, TeamTypes, TeamDispatchesFit, Team!Recorded
  <2>2. CASE TeamBeside(d)
    BY <1>6, <2>1, <2>2 DEF TeamBeside
  <2>3. CASE TeamUnseen(d)
    BY <1>1, <1>6, <2>1, <2>3, TeamUnseenStays
  <2> QED BY <2>1, <2>2, <2>3 DEF TeamStraysFit, TeamInv
<1>9. Team!CompletedIsCovered'
  BY <1>1 DEF Team!CompletedIsCovered, TeamInv
<1> QED BY <1>2, <1>3, <1>4, <1>5, <1>7, <1>8, <1>9 DEF TeamInv

\* The policy answers, and the call is on record before it runs.
LEMMA TeamGateKeeps ==
  ASSUME TeamApart, TeamInv, NEW x \in tools, NEW allowed \in BOOLEAN, Team!GateReturns(x, allowed)
  PROVE  TeamInv'
<1>1. /\ UNCHANGED <<teamOpen, held, teamRun, team, turns, messages, transcript, sent, stopping, teamTold, strays, lost>>
      /\ x.at = "gate" /\ x \in TeamCalls /\ x.d \in Team!Recorded /\ x.d \in TeamDelegations /\ x.call \in TeamMade
      /\ teamRecords[x.d] \in TeamEntries
  BY TeamUntoldIs DEF Team!GateReturns, TeamInv, TeamTypes, TeamCallsFit
<1>2. CASE UNCHANGED teamRecords /\ tools' = (tools \ {x}) \cup {[x EXCEPT !.at = "denied"]}
  <2>1. /\ tools' \subseteq TeamCalls
        /\ \A y \in tools' : \E z \in tools : z.call = y.call /\ z.d = y.d /\ (y.at = "gate" => z.at = "gate")
    <3> SUFFICES ASSUME NEW y \in tools'
                 PROVE  y \in TeamCalls /\ \E z \in tools : z.call = y.call /\ z.d = y.d /\ (y.at = "gate" => z.at = "gate")
      OBVIOUS
    <3>1. CASE y = [x EXCEPT !.at = "denied"]
      BY <1>1, <3>1 DEF TeamCalls
    <3>2. CASE y \in tools
      BY <3>2 DEF TeamInv, TeamTypes
    <3> QED BY <1>2, <3>1, <3>2
  <2>2. TeamSameEvidence
    BY <1>1, <1>2, <2>1 DEF TeamSameEvidence, TeamInv, TeamTypes, TeamDispatchesFit
  <2> QED BY <1>1, <2>2, TeamUntoldIs, TeamStillKeeps
          DEF TeamInv, TeamTypes, Team!CompletedIsCovered, TeamRunsFit, TeamBegun
<1>3. CASE /\ teamRecords' = [teamRecords EXCEPT ![x.d].gated = @ \cup {x.call}]
           /\ tools' = {IF y.d = x.d THEN [y EXCEPT !.current = FALSE] ELSE y : y \in tools \ {x}}
                       \cup {[x EXCEPT !.at = "running", !.current = FALSE]}
  <2>1. /\ tools' \subseteq TeamCalls
        /\ \A y \in tools' : \E z \in tools : z.call = y.call /\ z.d = y.d /\ (y.at = "gate" => z.at = "gate")
    <3> SUFFICES ASSUME NEW y \in tools'
                 PROVE  y \in TeamCalls /\ \E z \in tools : z.call = y.call /\ z.d = y.d /\ (y.at = "gate" => z.at = "gate")
      OBVIOUS
    <3>1. CASE y = [x EXCEPT !.at = "running", !.current = FALSE]
      BY <1>1, <3>1 DEF TeamCalls
    <3>2. CASE y \in {IF z.d = x.d THEN [z EXCEPT !.current = FALSE] ELSE z : z \in tools \ {x}}
      <4>1. PICK z \in tools : y = IF z.d = x.d THEN [z EXCEPT !.current = FALSE] ELSE z
        BY <3>2
      <4>2. z \in TeamCalls
        BY DEF TeamInv, TeamTypes
      <4>3. y \in TeamCalls /\ z.call = y.call /\ z.d = y.d /\ y.at = z.at
        BY <4>1, <4>2 DEF TeamCalls
      <4> QED BY <4>3
    <3> QED BY <1>3, <3>1, <3>2
  <2>2. /\ teamRecords'[x.d] \in TeamEntries /\ teamRecords'[x.d].child = teamRecords[x.d].child
        /\ teamRecords'[x.d].from = teamRecords[x.d].from /\ teamRecords'[x.d].phase = teamRecords[x.d].phase
        /\ teamRecords'[x.d].gated = teamRecords[x.d].gated \cup {x.call} /\ teamRecords'[x.d].preSteps = teamRecords[x.d].preSteps
        /\ teamRecords'[x.d].unconfirmed = teamRecords[x.d].unconfirmed /\ teamRecords'[x.d].receipt = teamRecords[x.d].receipt
        /\ \A e \in TeamDelegations : e # x.d => teamRecords'[e] = teamRecords[e]
        /\ teamRecords' \in [TeamDelegations -> TeamEntries \cup {Nil}]
    BY <1>1, <1>3 DEF TeamEntries, TeamCalls, TeamInv, TeamTypes
  <2>3. Team!Recorded' = Team!Recorded /\ TeamMade' = TeamMade
    BY <1>1, <2>2 DEF Team!Recorded, TeamMade, TeamApart
  <2>4. TeamTypes'
    BY <1>1, <2>1, <2>2 DEF TeamTypes, TeamInv
  <2>5. TeamDispatchesFit'
    <3> SUFFICES ASSUME NEW e \in TeamDelegations
                 PROVE  /\ sent[e] = IF teamRecords'[e] = Nil THEN 0 ELSE 1
                        /\ teamRecords'[e] = Nil => teamTold[e] = {} /\ e \notin strays
                        /\ teamRecords'[e] # Nil => /\ teamRecords'[e].child \in {Nil, Target[e]}
                                                    /\ teamRecords'[e].from <= Len(transcript[Target[e]]) + 1
                                                    /\ teamRecords'[e].phase = "settled" => teamRecords'[e].receipt \in teamTold[e]
      BY <1>1 DEF TeamDispatchesFit
    <3>1. teamRecords[e] # Nil <=> teamRecords'[e] # Nil
      BY <2>3 DEF Team!Recorded
    <3> QED BY <2>2, <3>1 DEF TeamDispatchesFit, TeamInv
  <2>6. TeamRunsFit' /\ TeamFreshFits' /\ Team!CompletedIsCovered'
    <3>1. \A e \in TeamDelegations : teamRecords'[e] = Nil <=> teamRecords[e] = Nil
      BY <2>3 DEF Team!Recorded
    <3> QED BY <1>1, <2>3, <3>1 DEF TeamRunsFit, TeamBegun, TeamFreshFits, Team!CompletedIsCovered, TeamInv
  <2>7. TeamCallsFit'
    <3>1. \A y \in tools' : y.call \in TeamMade' /\ (y.at = "gate" => y.d \in Team!Recorded')
      BY <2>1, <2>3 DEF TeamCallsFit, TeamInv
    <3>2. \A e \in Team!Recorded' : teamRecords'[e].gated \subseteq TeamMade'
      BY <1>1, <2>2, <2>3 DEF TeamCallsFit, TeamInv, Team!Recorded
    <3> QED BY <3>1, <3>2 DEF TeamCallsFit
  <2>8. ASSUME NEW e \in Team!Recorded
        PROVE  /\ TeamAsking(e)' <=> TeamAsking(e)
               /\ TeamAdmitted(e)' <=> TeamAdmitted(e)
               /\ \A type : TeamSince(e, type)' = TeamSince(e, type)
               /\ teamRecords'[e].gated = teamRecords[e].gated \/ (e = x.d /\ teamRecords'[e].gated = teamRecords[e].gated \cup {x.call})
    <3>1. e \in TeamDelegations /\ Target[e] \in Children
      BY DEF Team!Recorded, TeamApart
    <3> QED BY <1>1, <2>2, <3>1 DEF TeamAsking, TeamAdmitted, TeamSince
  <2>9. TeamRequestsFit'
    BY <1>1, <2>3, <2>8 DEF TeamRequestsFit, TeamInv
  <2>10. TeamStraysFit'
    <3> SUFFICES ASSUME NEW e \in strays \ lost PROVE TeamUnseen(e)' \/ TeamBeside(e)'
      BY <1>1 DEF TeamStraysFit
    <3>1. e \in Team!Recorded /\ e \in TeamDelegations
      BY DEF TeamInv, TeamTypes, TeamDispatchesFit, Team!Recorded
    <3>2. CASE TeamBeside(e)
      BY <2>8, <3>1, <3>2 DEF TeamBeside
    <3>3. CASE TeamUnseen(e)
      <4>1. \A i \in TeamSince(e, "call") : i \in TeamSince(e, "call")' /\ transcript'[Target[e]][i] = transcript[Target[e]][i]
        BY <1>1, <2>8, <3>1
      <4>2. \A k : k \in teamRecords'[e].gated => k \in teamRecords[e].gated \/ \E z \in tools : z.at = "gate" /\ z.call = k
        BY <1>1, <2>8, <3>1
      <4>3. \A y \in tools' : y.at = "gate" => \E z \in tools : z.at = "gate" /\ z.call = y.call
        BY <2>1
      <4> QED BY <3>1, <3>3, <4>1, <4>2, <4>3, TeamUnseenStays
    <3> QED BY <3>2, <3>3 DEF TeamStraysFit, TeamInv
  <2> QED BY <2>4, <2>5, <2>6, <2>7, <2>9, <2>10 DEF TeamInv
<1> QED BY <1>2, <1>3 DEF Team!GateReturns

\* The hook before a request admits it, or the request is stray.
LEMMA TeamPreStepKeeps == ASSUME TeamApart, TeamInv, NEW c \in Children, Team!PreStep(c) PROVE TeamInv'
<1>1. /\ UNCHANGED <<teamOpen, held, teamRun, team, messages, transcript, sent, stopping, teamTold, lost>>
      /\ turns[c] # Nil /\ turns[c] \in TeamTurns /\ turns[c].at # "entered" /\ c \in team
  BY DEF Team!PreStep, TeamInv, TeamTypes, TeamFreshFits
<1>2. ASSUME NEW d \in Team!Recorded, Target[d] = c PROVE ~TeamAsking(d)
  BY <1>1, <1>2 DEF TeamAsking
<1>3. TeamMade' = TeamMade
  BY <1>1 DEF TeamMade
<1>4. CASE teamOpen /\ Team!RecordOf(c) # {}
  <2>1. PICK d \in Team!RecordOf(c) :
          LET count == teamRecords[d].preSteps + 1
              allowed == count = 1 /\ d \in held
          IN /\ Team!Saved(d, [teamRecords[d] EXCEPT !.child = c, !.preSteps = count, !.unconfirmed = ~allowed])
             /\ turns' = [turns EXCEPT ![c].at = IF allowed THEN "entered" ELSE "over"]
             /\ UNCHANGED strays
    BY <1>4 DEF Team!PreStep
  <2>2. /\ d \in Team!Recorded /\ d \in TeamDelegations /\ teamRecords[d] \in TeamEntries /\ Target[d] = c
        /\ teamRecords[d].phase # "settled" /\ teamRecords[d].preSteps \in Nat
    BY TeamUntoldIs DEF Team!RecordOf, Team!Unsettled, TeamEntries
  <2>3. PICK fails \in BOOLEAN : fails <=> ~(teamRecords[d].preSteps + 1 = 1 /\ d \in held)
    OBVIOUS
  <2> DEFINE r == [teamRecords[d] EXCEPT !.child = c, !.preSteps = teamRecords[d].preSteps + 1, !.unconfirmed = fails]
             x == [turns[c] EXCEPT !.at = IF fails THEN "over" ELSE "entered"]
  <2>4. Team!Saved(d, r) /\ turns' = [turns EXCEPT ![c] = x]
    <3>1. fails = ~(teamRecords[d].preSteps + 1 = 1 /\ d \in held)
      BY <2>3
    <3> QED BY <2>1, <3>1, Zenon
  <2>5. /\ r \in TeamEntries /\ r.child = c /\ r.from = teamRecords[d].from /\ r.gated = teamRecords[d].gated
        /\ r.preSteps = teamRecords[d].preSteps + 1 /\ r.unconfirmed = fails /\ r.phase # "settled"
    <3>1. PICK n \in Nat : n = teamRecords[d].preSteps + 1
      BY <2>2
    <3>2. PICK q : q = [teamRecords[d] EXCEPT !.child = c, !.preSteps = n, !.unconfirmed = fails]
      OBVIOUS
    <3>3. q = r
      BY <3>1, <3>2
    <3>4. /\ q \in TeamEntries /\ q.child = c /\ q.from = teamRecords[d].from /\ q.gated = teamRecords[d].gated
          /\ q.preSteps = n /\ q.unconfirmed = fails /\ q.phase = teamRecords[d].phase
      BY <2>2, <3>2 DEF TeamEntries
    <3> QED BY <2>2, <3>1, <3>3, <3>4
  <2>6. x \in TeamTurns /\ (x.at = "entered" <=> ~fails)
    BY <1>1 DEF TeamTurns
  <2> HIDE DEF r, x
  <2>7. /\ teamRecords' \in [TeamDelegations -> TeamEntries \cup {Nil}]
        /\ teamRecords'[d] = r
        /\ \A e \in TeamDelegations : e # d => teamRecords'[e] = teamRecords[e]
        /\ tools' \subseteq TeamCalls
        /\ \A y \in tools' : \E z \in tools : z.call = y.call /\ z.d = y.d /\ z.at = y.at
    BY <2>2, <2>4, <2>5, TeamSavedIs DEF TeamInv
  <2>8. Team!Recorded' = Team!Recorded /\ \A e \in TeamDelegations : teamRecords'[e] = Nil <=> teamRecords[e] = Nil
    BY <2>2, <2>5, <2>7 DEF Team!Recorded, TeamApart
  <2>9. turns' \in [Children -> TeamTurns \cup {Nil}]
    BY <2>4, <2>6 DEF TeamInv, TeamTypes
  <2>10. TeamTypes'
    BY <1>1, <2>1, <2>7, <2>9 DEF TeamTypes, TeamInv
  <2>11. TeamDispatchesFit'
    <3> SUFFICES ASSUME NEW e \in TeamDelegations
                 PROVE  /\ sent[e] = IF teamRecords'[e] = Nil THEN 0 ELSE 1
                        /\ teamRecords'[e] = Nil => teamTold[e] = {} /\ e \notin strays
                        /\ teamRecords'[e] # Nil => /\ teamRecords'[e].child \in {Nil, Target[e]}
                                                    /\ teamRecords'[e].from <= Len(transcript[Target[e]]) + 1
                                                    /\ teamRecords'[e].phase = "settled" => teamRecords'[e].receipt \in teamTold[e]
      BY <1>1, <2>1 DEF TeamDispatchesFit
    <3>1. CASE e = d
      BY <2>2, <2>5, <2>7, <2>8, <3>1 DEF TeamDispatchesFit, TeamInv
    <3>2. CASE e # d
      BY <2>7, <3>2 DEF TeamDispatchesFit, TeamInv
    <3> QED BY <3>1, <3>2
  <2>12. TeamRunsFit' /\ Team!CompletedIsCovered'
    BY <1>1, <2>1, <2>8 DEF TeamRunsFit, TeamBegun, Team!CompletedIsCovered, TeamInv
  <2>13. TeamFreshFits'
    <3>1. \A b \in Children : turns'[b] # Nil => turns[b] # Nil \/ b \in team
      BY <1>1, <2>4 DEF TeamInv, TeamTypes
    <3> QED BY <1>1, <2>8, <3>1, TeamFreshKeeps
  <2>14. TeamCallsFit'
    <3>1. \A y \in tools' : y.call \in TeamMade' /\ (y.at = "gate" => y.d \in Team!Recorded')
      BY <1>3, <2>7, <2>8 DEF TeamCallsFit, TeamInv
    <3>2. \A e \in Team!Recorded' : teamRecords'[e].gated \subseteq TeamMade'
      BY <1>3, <2>2, <2>5, <2>7, <2>8 DEF TeamCallsFit, TeamInv, Team!Recorded
    <3> QED BY <3>1, <3>2 DEF TeamCallsFit
  <2>15. ASSUME NEW e \in Team!Recorded
         PROVE  /\ \A type : TeamSince(e, type)' = TeamSince(e, type)
                /\ teamRecords'[e].gated = teamRecords[e].gated
                /\ TeamAsking(e) => TeamAsking(e)'
                /\ e # d => (TeamAdmitted(e)' <=> TeamAdmitted(e))
    <3>1. e \in TeamDelegations /\ Target[e] \in Children
      BY DEF Team!Recorded, TeamApart
    <3>2. /\ \A type : TeamSince(e, type)' = TeamSince(e, type)
          /\ teamRecords'[e].gated = teamRecords[e].gated
          /\ e # d => (TeamAdmitted(e)' <=> TeamAdmitted(e))
      BY <1>1, <2>5, <2>7, <3>1 DEF TeamAdmitted, TeamSince
    <3>3. TeamAsking(e) => TeamAsking(e)'
      BY <1>2, <2>4, <3>1 DEF TeamAsking, TeamInv, TeamTypes
    <3> QED BY <3>2, <3>3
  <2>16. /\ TeamAdmitted(d)' <=> ~fails
         /\ TeamAsking(d)' <=> ~fails
         /\ TeamAdmitted(d) => fails
    <3>1. turns'[c] = x /\ x # Nil
      BY <2>4, <2>6 DEF TeamInv, TeamTypes, TeamApart
    <3> QED BY <2>2, <2>3, <2>5, <2>6, <2>7, <3>1 DEF TeamAdmitted, TeamAsking
  <2>17. TeamRequestsFit'
    <3> SUFFICES ASSUME NEW e \in Team!Recorded \ lost, TeamAdmitted(e)' PROVE TeamAsking(e)' \/ TeamSince(e, "assistant")' # {}
      BY <1>1, <2>8 DEF TeamRequestsFit
    <3> QED BY <2>15, <2>16 DEF TeamRequestsFit, TeamInv
  <2>18. TeamStraysFit'
    <3> SUFFICES ASSUME NEW e \in strays \ lost PROVE TeamUnseen(e)' \/ TeamBeside(e)'
      BY <1>1, <2>1 DEF TeamStraysFit
    <3>1. e \in Team!Recorded /\ e \in TeamDelegations
      BY DEF TeamInv, TeamTypes, TeamDispatchesFit, Team!Recorded
    <3>2. CASE TeamBeside(e) /\ e # d
      BY <2>15, <3>1, <3>2 DEF TeamBeside
    <3>3. CASE TeamBeside(e) /\ e = d
      <4>1. ~TeamAsking(d)
        BY <1>2, <2>2
      <4>2. TeamSince(d, "assistant") # {}
        BY <3>3, <4>1 DEF TeamBeside
      <4> QED BY <2>2, <2>15, <2>16, <3>3, <4>2 DEF TeamBeside
    <3>4. CASE TeamUnseen(e)
      <4>1. \A i \in TeamSince(e, "call") : i \in TeamSince(e, "call")' /\ transcript'[Target[e]][i] = transcript[Target[e]][i]
        BY <1>1, <2>15, <3>1
      <4>2. teamRecords'[e].gated = teamRecords[e].gated
        BY <2>15, <3>1
      <4>3. \A y \in tools' : y.at = "gate" => \E z \in tools : z.at = "gate" /\ z.call = y.call
        BY <2>7
      <4> QED BY <3>1, <3>4, <4>1, <4>2, <4>3, TeamUnseenStays
    <3> QED BY <3>2, <3>3, <3>4 DEF TeamStraysFit, TeamInv
  <2> QED BY <2>10, <2>11, <2>12, <2>13, <2>14, <2>17, <2>18 DEF TeamInv
<1>5. CASE ~(teamOpen /\ Team!RecordOf(c) # {})
  <2> DEFINE x == [turns[c] EXCEPT !.at = "entered"]
  <2>1. /\ turns' = [turns EXCEPT ![c] = x] /\ strays' = strays \cup Team!Undecided(c) /\ UNCHANGED <<teamRecords, tools>>
        /\ x \in TeamTurns /\ x.at = "entered"
    BY <1>1, <1>5 DEF Team!PreStep, TeamTurns
  <2> HIDE DEF x
  <2>2. /\ Team!Recorded' = Team!Recorded
        /\ \A d \in Team!Undecided(c) : d \in Team!Recorded /\ d \in TeamDelegations /\ Target[d] = c /\ teamTold[d] = {} /\ teamRecords[d] # Nil
    BY <2>1 DEF Team!Recorded, Team!Undecided
  <2>3. turns'[c] = x /\ x # Nil
    BY <2>1 DEF TeamInv, TeamTypes, TeamApart
  <2>4. TeamTypes'
    BY <1>1, <2>1, <2>2 DEF TeamTypes, TeamInv
  <2>5. TeamRunsFit' /\ TeamDispatchesFit' /\ Team!CompletedIsCovered' /\ TeamCallsFit'
    <3>1. TeamDispatchesFit'
      BY <1>1, <2>1, <2>2 DEF TeamDispatchesFit, TeamInv
    <3>2. Team!CompletedIsCovered'
      BY <1>1, <2>1, <2>2 DEF Team!CompletedIsCovered, TeamInv
    <3>3. TeamRunsFit' /\ TeamCallsFit'
      BY <1>1, <1>3, <2>1, <2>2 DEF TeamRunsFit, TeamBegun, TeamCallsFit, TeamInv
    <3> QED BY <3>1, <3>2, <3>3
  <2>6. TeamFreshFits'
    <3>1. \A b \in Children : turns'[b] # Nil => turns[b] # Nil \/ b \in team
      BY <1>1, <2>1 DEF TeamInv, TeamTypes
    <3> QED BY <1>1, <2>1, <3>1, TeamFreshKeeps
  <2>7. ASSUME NEW e \in Team!Recorded
        PROVE  /\ \A type : TeamSince(e, type)' = TeamSince(e, type)
               /\ TeamAsking(e) => TeamAsking(e)'
               /\ Target[e] = c => TeamAsking(e)' /\ ~TeamAsking(e)
               /\ TeamAdmitted(e)' <=> TeamAdmitted(e)
    <3>1. e \in TeamDelegations /\ Target[e] \in Children
      BY DEF Team!Recorded, TeamApart
    <3> QED BY <1>1, <1>2, <2>1, <2>3, <3>1 DEF TeamAdmitted, TeamSince, TeamAsking, TeamInv, TeamTypes
  <2>8. TeamRequestsFit'
    BY <1>1, <2>2, <2>7 DEF TeamRequestsFit, TeamInv
  <2>9. TeamStraysFit'
    <3> SUFFICES ASSUME NEW e \in strays' \ lost PROVE TeamUnseen(e)' \/ TeamBeside(e)'
      BY <1>1 DEF TeamStraysFit
    <3>1. e \in Team!Recorded /\ e \in TeamDelegations
      BY <2>1, <2>2 DEF TeamInv, TeamTypes, TeamDispatchesFit, Team!Recorded
    <3>2. CASE e \in Team!Undecided(c)
      <4>1. TeamAsking(e)' /\ ~TeamAsking(e)
        BY <2>2, <2>7, <3>2
      <4>2. TeamAdmitted(e) => TeamSince(e, "assistant") # {}
        BY <3>1, <4>1 DEF TeamRequestsFit, TeamInv
      <4> QED BY <2>7, <3>1, <4>1, <4>2 DEF TeamBeside
    <3>3. CASE e \in strays /\ TeamBeside(e)
      BY <2>7, <3>1, <3>3 DEF TeamBeside
    <3>4. CASE e \in strays /\ TeamUnseen(e)
      BY <1>1, <2>1, <2>7, <3>1, <3>4, TeamUnseenStays
    <3> QED BY <2>1, <3>2, <3>3, <3>4 DEF TeamStraysFit, TeamInv
  <2> QED BY <2>4, <2>5, <2>6, <2>8, <2>9 DEF TeamInv
<1> QED BY <1>4, <1>5

\* A tool call waits for the policy, is denied, or is stray.
LEMMA TeamToolCallKeeps ==
  ASSUME TeamApart, TeamInv, NEW c \in Children, NEW k \in Calls, Team!ToolCall(c, k)
  PROVE  TeamInv'
<1> DEFINE e == [type |-> "call", by |-> k]
<1>1. /\ UNCHANGED <<teamOpen, held, teamRun, team, turns, messages, sent, stopping, teamTold, lost>>
      /\ turns[c] # Nil /\ turns[c].at = "answered"
      /\ \A b \in Children : \A i \in DOMAIN transcript[b] : transcript[b][i].type = "call" => transcript[b][i].by # k
  BY DEF Team!ToolCall
<1>2. transcript' = [transcript EXCEPT ![c] = Append(@, e)]
  BY DEF Team!ToolCall
<1>3. e \in TeamEvents /\ e.type = "call" /\ e.by = k
  BY DEF TeamEvents
<1> HIDE DEF e
<1>4. transcript' \in [Children -> Seq(TeamEvents)]
  BY <1>2, <1>3 DEF TeamInv, TeamTypes
<1>5. ASSUME NEW b \in Children
      PROVE  /\ Len(transcript[b]) \in Nat /\ Len(transcript'[b]) \in Nat /\ Len(transcript[b]) <= Len(transcript'[b])
             /\ DOMAIN transcript[b] = 1..Len(transcript[b]) /\ DOMAIN transcript'[b] = 1..Len(transcript'[b])
             /\ \A i \in DOMAIN transcript[b] : i \in DOMAIN transcript'[b] /\ transcript'[b][i] = transcript[b][i]
             /\ \A i \in DOMAIN transcript'[b] : i \notin DOMAIN transcript[b] => b = c /\ i = Len(transcript[c]) + 1 /\ transcript'[b][i] = e
             /\ b = c => Len(transcript[c]) + 1 \in DOMAIN transcript'[c] /\ transcript'[c][Len(transcript[c]) + 1] = e
  <2>1. transcript[b] \in Seq(TeamEvents) /\ transcript[c] \in Seq(TeamEvents)
    BY DEF TeamInv, TeamTypes
  <2>2. CASE b = c
    <3>1. transcript'[b] = Append(transcript[c], e)
      BY <1>2, <2>2 DEF TeamInv, TeamTypes
    <3> QED BY <1>3, <2>1, <2>2, <3>1
  <2>3. CASE b # c
    <3>1. transcript'[b] = transcript[b]
      BY <1>2, <2>3 DEF TeamInv, TeamTypes
    <3> QED BY <2>1, <2>3, <3>1
  <2> QED BY <2>2, <2>3
<1>6. TeamMade \subseteq TeamMade' /\ k \in TeamMade' /\ k \notin TeamMade
  <2>1. ASSUME NEW j \in TeamMade PROVE j \in TeamMade'
    <3>1. PICK b \in Children : \E i \in DOMAIN transcript[b] : transcript[b][i].type = "call" /\ transcript[b][i].by = j
      BY DEF TeamMade
    <3>2. \E i \in DOMAIN transcript'[b] : transcript'[b][i].type = "call" /\ transcript'[b][i].by = j
      BY <1>5, <3>1
    <3> QED BY <3>2 DEF TeamMade
  <2>2. k \in TeamMade'
    <3>1. \E i \in DOMAIN transcript'[c] : transcript'[c][i].type = "call" /\ transcript'[c][i].by = k
      BY <1>3, <1>5
    <3> QED BY <3>1 DEF TeamMade
  <2>3. k \notin TeamMade
    BY <1>1 DEF TeamMade
  <2> QED BY <2>1, <2>2, <2>3
\* The hook charges a record of the child, or nobody sees the call.
<1>7. PICK x \in TeamCalls :
        /\ tools' = tools \cup {x} /\ x.call = k
        /\ \/ /\ x.d \in Team!Recorded /\ Target[x.d] = c /\ teamRecords[x.d].phase # "settled" /\ UNCHANGED strays
              /\ teamRecords' = [teamRecords EXCEPT ![x.d].child = c]
           \/ x.at # "gate" /\ UNCHANGED teamRecords /\ strays' = strays \cup Team!Undecided(c)
  <2>1. CASE teamOpen /\ Team!RecordOf(c) # {}
    <3>1. PICK d \in Team!RecordOf(c) :
            /\ teamRecords' = [teamRecords EXCEPT ![d].child = c]
            /\ tools' = tools \cup {[child |-> c, call |-> k, d |-> d, current |-> TRUE,
                                     at |-> IF d \in held THEN "gate" ELSE "denied"]}
            /\ UNCHANGED strays
      BY <2>1 DEF Team!ToolCall
    <3>2. d \in Team!Recorded /\ d \in TeamDelegations /\ Target[d] = c /\ teamRecords[d].phase # "settled"
      BY TeamUntoldIs DEF Team!RecordOf, Team!Unsettled
    <3>3. PICK at \in {"gate", "denied"} : at = IF d \in held THEN "gate" ELSE "denied"
      OBVIOUS
    <3>4. [child |-> c, call |-> k, d |-> d, current |-> TRUE, at |-> at] \in TeamCalls
      BY <3>2 DEF TeamCalls
    <3> QED BY <3>1, <3>2, <3>3, <3>4
  <2>2. CASE ~(teamOpen /\ Team!RecordOf(c) # {})
    <3>1. /\ tools' = tools \cup {[child |-> c, call |-> k, d |-> Nil, current |-> TRUE, at |-> "running"]}
          /\ strays' = strays \cup Team!Undecided(c) /\ UNCHANGED teamRecords
      BY <2>2 DEF Team!ToolCall
    <3>2. [child |-> c, call |-> k, d |-> Nil, current |-> TRUE, at |-> "running"] \in TeamCalls
      BY DEF TeamCalls
    <3> QED BY <3>1, <3>2
  <2> QED BY <2>1, <2>2
<1>8. /\ teamRecords' \in [TeamDelegations -> TeamEntries \cup {Nil}]
      /\ \A d \in TeamDelegations :
           /\ teamRecords'[d] = Nil <=> teamRecords[d] = Nil
           /\ teamRecords[d] # Nil => /\ teamRecords'[d].child \in {Nil, Target[d]}
                                      /\ teamRecords'[d].from = teamRecords[d].from
                                      /\ teamRecords'[d].gated = teamRecords[d].gated
                                      /\ teamRecords'[d].preSteps = teamRecords[d].preSteps
                                      /\ teamRecords'[d].unconfirmed = teamRecords[d].unconfirmed
                                      /\ teamRecords'[d].phase = "settled" => teamRecords'[d].receipt \in teamTold[d]
  <2>1. CASE UNCHANGED teamRecords
    BY <2>1 DEF TeamInv, TeamTypes, TeamDispatchesFit
  <2>2. CASE /\ x.d \in Team!Recorded /\ Target[x.d] = c /\ teamRecords[x.d].phase # "settled"
             /\ teamRecords' = [teamRecords EXCEPT ![x.d].child = c]
    <3>1. x.d \in TeamDelegations /\ teamRecords[x.d] \in TeamEntries
      BY <2>2, TeamUntoldIs
    <3>2. /\ teamRecords'[x.d] \in TeamEntries /\ teamRecords'[x.d].child = c /\ teamRecords'[x.d].from = teamRecords[x.d].from
          /\ teamRecords'[x.d].gated = teamRecords[x.d].gated /\ teamRecords'[x.d].preSteps = teamRecords[x.d].preSteps
          /\ teamRecords'[x.d].unconfirmed = teamRecords[x.d].unconfirmed /\ teamRecords'[x.d].phase # "settled"
          /\ \A d \in TeamDelegations : d # x.d => teamRecords'[d] = teamRecords[d]
          /\ teamRecords' \in [TeamDelegations -> TeamEntries \cup {Nil}]
      BY <2>2, <3>1 DEF TeamEntries, TeamInv, TeamTypes
    <3>3. ASSUME NEW d \in TeamDelegations, d # x.d
          PROVE  teamRecords[d] # Nil => /\ teamRecords[d].child \in {Nil, Target[d]}
                                         /\ teamRecords[d].phase = "settled" => teamRecords[d].receipt \in teamTold[d]
      BY DEF TeamInv, TeamDispatchesFit
    <3> QED BY <2>2, <3>1, <3>2, <3>3 DEF TeamApart
  <2> QED BY <1>7, <2>1, <2>2
<1>9. /\ Team!Recorded' = Team!Recorded /\ strays \subseteq strays'
      /\ \A d \in strays' : d \in strays \/ (d \in Team!Undecided(c) /\ x.at # "gate")
      /\ \A d \in Team!Undecided(c) : d \in Team!Recorded /\ d \in TeamDelegations /\ Target[d] = c /\ teamTold[d] = {} /\ teamRecords[d] # Nil
  BY <1>7, <1>8 DEF Team!Recorded, Team!Undecided
<1>10. TeamTypes'
  BY <1>1, <1>4, <1>7, <1>8, <1>9 DEF TeamTypes, TeamInv
<1>11. TeamRunsFit'
  <2>1. \A b \in Children : Len(transcript[b]) \in Nat /\ Len(transcript'[b]) \in Nat /\ Len(transcript[b]) <= Len(transcript'[b])
    BY <1>5
  <2>2. \A t \in Threads : \/ teamRun'[t].at = "rest"
                           \/ /\ teamRun'[t].d = teamRun[t].d /\ teamRun'[t].from = teamRun[t].from /\ teamRun[t].at # "rest"
                              /\ teamRun'[t].at \notin {"rest", "board"} => TeamBegun(t)
    BY <1>1 DEF TeamBegun
  <2> QED BY <1>9, <1>10, <2>1, <2>2, TeamRunsKeep DEF TeamTypes
<1>12. TeamDispatchesFit'
  <2> SUFFICES ASSUME NEW d \in TeamDelegations
               PROVE  /\ sent[d] = IF teamRecords'[d] = Nil THEN 0 ELSE 1
                      /\ teamRecords'[d] = Nil => teamTold[d] = {} /\ d \notin strays'
                      /\ teamRecords'[d] # Nil => /\ teamRecords'[d].child \in {Nil, Target[d]}
                                                  /\ teamRecords'[d].from <= Len(transcript'[Target[d]]) + 1
                                                  /\ teamRecords'[d].phase = "settled" => teamRecords'[d].receipt \in teamTold[d]
    BY <1>1 DEF TeamDispatchesFit
  <2>1. teamRecords'[d] = Nil => teamTold[d] = {} /\ d \notin strays'
    BY <1>8, <1>9 DEF TeamDispatchesFit, TeamInv
  <2>2. teamRecords'[d] # Nil => teamRecords'[d].from <= Len(transcript'[Target[d]]) + 1
    <3> SUFFICES ASSUME teamRecords[d] # Nil PROVE teamRecords[d].from <= Len(transcript'[Target[d]]) + 1
      BY <1>8
    <3>1. teamRecords[d].from <= Len(transcript[Target[d]]) + 1 /\ teamRecords[d].from \in Nat
      BY DEF TeamDispatchesFit, TeamInv, TeamTypes, TeamEntries
    <3>2. Target[d] \in Children
      BY DEF TeamApart
    <3> QED BY <1>5, <3>1, <3>2
  <2> QED BY <1>8, <2>1, <2>2 DEF TeamDispatchesFit, TeamInv
<1>13. TeamFreshFits' /\ Team!CompletedIsCovered'
  <2>1. TeamFreshFits'
    BY <1>1, <1>8, TeamFreshKeeps
  <2>2. Team!CompletedIsCovered'
    BY <1>1, <1>9 DEF Team!CompletedIsCovered, TeamInv
  <2> QED BY <2>1, <2>2
<1>14. TeamCallsFit'
  <2>1. \A y \in tools' : y.call \in TeamMade' /\ (y.at = "gate" => y.d \in Team!Recorded')
    BY <1>6, <1>7, <1>9 DEF TeamCallsFit, TeamInv
  <2>2. \A d \in Team!Recorded' : teamRecords'[d].gated \subseteq TeamMade'
    BY <1>6, <1>8, <1>9 DEF TeamCallsFit, TeamInv, Team!Recorded
  <2> QED BY <2>1, <2>2 DEF TeamCallsFit
<1>15. ASSUME NEW d \in Team!Recorded
       PROVE  /\ d \in TeamDelegations /\ Target[d] \in Children
              /\ \A type : TeamSince(d, type) \subseteq TeamSince(d, type)'
              /\ TeamAsking(d)' <=> TeamAsking(d)
              /\ TeamAdmitted(d)' <=> TeamAdmitted(d)
  <2>1. d \in TeamDelegations /\ Target[d] \in Children /\ teamRecords[d] # Nil
    BY DEF Team!Recorded, TeamApart
  <2>2. \A type : TeamSince(d, type) \subseteq TeamSince(d, type)'
    BY <1>5, <1>8, <2>1 DEF TeamSince
  <2> QED BY <1>1, <1>8, <2>1, <2>2 DEF TeamAsking, TeamAdmitted
<1>16. TeamRequestsFit'
  <2> SUFFICES ASSUME NEW d \in Team!Recorded \ lost, TeamAdmitted(d) PROVE TeamAsking(d) \/ TeamSince(d, "assistant")' # {}
    BY <1>1, <1>9, <1>15 DEF TeamRequestsFit
  <2> QED BY <1>15 DEF TeamRequestsFit, TeamInv
<1>17. TeamStraysFit'
  <2> SUFFICES ASSUME NEW d \in strays' \ lost PROVE TeamUnseen(d)' \/ TeamBeside(d)'
    BY <1>1 DEF TeamStraysFit
  <2>1. d \in Team!Recorded /\ d \in TeamDelegations /\ teamRecords[d] # Nil
    BY <1>9 DEF TeamInv, TeamTypes, TeamDispatchesFit, Team!Recorded
  <2>2. CASE d \in Team!Undecided(c) /\ x.at # "gate"
    <3> DEFINE i == Len(transcript[c]) + 1
    <3>1. Target[d] = c /\ teamRecords[d].from <= i /\ teamRecords'[d].from = teamRecords[d].from
      BY <1>8, <1>9, <2>1, <2>2 DEF TeamDispatchesFit, TeamInv
    <3>2. i \in TeamSince(d, "call")' /\ transcript'[c][i].by = k
      BY <1>3, <1>5, <3>1 DEF TeamSince
    <3>3. k \notin teamRecords'[d].gated
      BY <1>6, <1>8, <2>1 DEF TeamCallsFit, TeamInv
    <3>4. \A y \in tools' : y.call = k => y.at # "gate"
      BY <1>6, <1>7, <2>2 DEF TeamCallsFit, TeamInv
    <3> HIDE DEF i
    <3> QED BY <3>1, <3>2, <3>3, <3>4 DEF TeamUnseen
  <2>3. CASE d \in strays /\ TeamUnseen(d)
    <3>1. ASSUME NEW i \in TeamSince(d, "call")
          PROVE  i \in TeamSince(d, "call")' /\ transcript'[Target[d]][i] = transcript[Target[d]][i] /\ transcript[Target[d]][i].by # k
      BY <1>1, <1>5, <1>15, <2>1 DEF TeamSince
    <3>2. teamRecords'[d].gated = teamRecords[d].gated
      BY <1>8, <2>1
    <3>3. \A y \in tools' : y.at = "gate" /\ y.call # k => \E z \in tools : z.at = "gate" /\ z.call = y.call
      BY <1>7
    <3> QED BY <2>1, <2>3, <3>1, <3>2, <3>3, TeamUnseenStays
  <2>4. CASE d \in strays /\ TeamBeside(d)
    BY <1>15, <2>1, <2>4 DEF TeamBeside
  <2> QED BY <1>9, <2>2, <2>3, <2>4 DEF TeamStraysFit, TeamInv
<1> QED BY <1>10, <1>11, <1>12, <1>13, <1>14, <1>16, <1>17 DEF TeamInv

\* Every step keeps the invariant.
LEMMA TeamNextKeeps == TeamApart /\ TeamInv /\ [Team!Next]_(Team!vars) => TeamInv'
<1> SUFFICES ASSUME TeamApart, TeamInv, [Team!Next]_(Team!vars) PROVE TeamInv'
  OBVIOUS
<1>1. CASE \E d \in TeamDelegations : Team!Repeat(d) \/ Team!CancelRunning(d) \/ Team!CancelAnswers(d) \/ Team!Reconcile(d) \/ Team!Released(d)
  BY <1>1, TeamRepeatKeeps, TeamCancelRunningKeeps, TeamCancelAnswersKeep, TeamReconcileKeeps, TeamReleasedKeeps
<1>2. CASE \E t \in Threads :
             \/ \E d \in TeamDelegations : Team!Admit(t, d)
             \/ Team!Dispatch(t) \/ Team!Arrives(t) \/ Team!SendReturns(t) \/ Team!Projected(t) \/ Team!Waited(t) \/ Team!NativeFails(t) \/ Team!Refused(t)
  BY <1>2, TeamAdmitKeeps, TeamDispatchKeeps, TeamArrivesKeeps, TeamSendReturnsKeeps, TeamProjectedKeeps,
     TeamWaitedKeeps,
     TeamNativeFailsKeeps, TeamRefusedKeeps
<1>3. CASE \E c \in Children :
             \/ \E m \in TeamDelegations \cup {"user"} : Team!TurnStarts(c, m)
             \/ Team!PreStep(c) \/ Team!TurnEnds(c)
             \/ \E ok \in BOOLEAN : Team!Assistant(c, ok)
             \/ \E k \in Calls : Team!ToolCall(c, k)
  BY <1>3, TeamTurnStartsKeeps, TeamPreStepKeeps, TeamTurnEndsKeeps, TeamAssistantKeeps, TeamToolCallKeeps
<1>4. CASE \E x \in tools : Team!ToolResult(x) \/ \E allowed \in BOOLEAN : Team!GateReturns(x, allowed)
  BY <1>4, TeamToolResultKeeps, TeamGateKeeps
<1>5. CASE Team!Dispose \/ Team!Recreate \/ Team!Crash
  BY <1>5, TeamHooksKeep, TeamCrashKeeps
<1>6. CASE UNCHANGED Team!vars
  <2>1. TeamSameEvidence
    BY <1>6, TeamUnchangedKeeps DEF Team!vars, Team!store, Team!native, TeamInv
  <2> QED BY <1>6, <2>1, TeamUntoldIs, TeamStillKeeps
          DEF Team!vars, Team!store, Team!native, TeamInv, TeamTypes, Team!CompletedIsCovered, TeamRunsFit, TeamBegun
<1> QED BY <1>1, <1>2, <1>3, <1>4, <1>5, <1>6 DEF Team!Next

\* Nothing is on record at first.
LEMMA TeamInitFits == TeamApart /\ Team!Init => TeamInv
<1> SUFFICES ASSUME TeamApart, Team!Init PROVE TeamInv
  OBVIOUS
<1>1. Team!Recorded = {}
  BY DEF Team!Init, Team!Recorded
<1>2. team \subseteq Children
  BY DEF Team!Init, TeamApart
<1>3. TeamTypes
  BY <1>2 DEF TeamTypes, Team!Init, Team!Resting, TeamRuns
<1>4. TeamRunsFit /\ TeamDispatchesFit /\ TeamCallsFit /\ TeamRequestsFit /\ TeamStraysFit /\ Team!CompletedIsCovered
  BY <1>1
  DEF TeamRunsFit, TeamBegun, TeamDispatchesFit, TeamCallsFit, TeamRequestsFit, TeamStraysFit,
      Team!CompletedIsCovered, Team!Init, Team!Resting
<1>5. TeamFreshFits
  BY DEF TeamFreshFits, Team!Init
<1> QED BY <1>3, <1>4, <1>5 DEF TeamInv

\* The invariant holds of every execution.
LEMMA TeamFits == TeamApart /\ Team!Spec => [](TeamApart /\ TeamInv)
<1>1. TeamApart /\ Team!Init => TeamApart /\ TeamInv
  BY TeamInitFits
<1>2. TeamApart /\ TeamInv /\ [Team!Next]_(Team!vars) => (TeamApart /\ TeamInv)'
  BY TeamNextKeeps DEF TeamApart
<1> QED BY <1>1, <1>2, PTL DEF Team!Spec

\* A delegation reaches its child at most once.
THEOREM TeamDispatchesOnce == TeamApart /\ Team!Spec => []Team!DispatchedOnce
<1>1. TeamInv => Team!DispatchedOnce
  BY DEF TeamInv, TeamDispatchesFit, Team!DispatchedOnce
<1> QED BY <1>1, TeamFits, PTL

\* A teammate is called finished only on a transcript in which nothing stray is left, and every call
\* and request in it was admitted by a hook, or stands in for one that was lost with its process.
THEOREM TeamAnswersCovered == TeamApart /\ Team!Spec => []Team!CompletedIsCovered
<1>1. TeamInv => Team!CompletedIsCovered
  BY DEF TeamInv
<1> QED BY <1>1, TeamFits, PTL

-----------------------------------------------------------------------------
(* The four of them.                                                              *)

Apart == PiApart /\ ChildApart /\ DshApart /\ TeamApart

\* A Pi session, its delegations and a DSH session keep the promise of a host: whatever is
\* repeated, interrupted, lost or installed again, an effect begins at most once, and no verdict
\* contradicts an earlier one.  What was called not executed never begins, but in a Pi session
\* whose caller asks for it again.
THEOREM BindingsKeepTheirPromise == Apart /\ BindingsSpec => ImplementsHostContract
BY PiKeepsItsPromise, ChildrenKeepThePromise, DshKeepsItsPromise DEF Apart, BindingsSpec, ImplementsHostContract

\* No effect of a child runs twice and no delegation reaches its teammate twice, for every number
\* of executions that race for one, of closings, reopenings and losses: the record comes first.
THEOREM BindingsDispatchOnce == Apart /\ BindingsSpec => []DispatchedOnce
<1>1. Child!ChildRunsOnce /\ Team!DispatchedOnce => DispatchedOnce
  BY DEF DispatchedOnce
<1>2. Apart /\ BindingsSpec => []Child!ChildRunsOnce /\ []Team!DispatchedOnce
  BY ChildrenRunOnce, TeamDispatchesOnce DEF Apart, BindingsSpec
<1> QED BY <1>1, <1>2, PTL

\* What the four bindings answer about work and about stops is of all of it: of turns, children
\* and teammates they were attached to from the first event to the last.
THEOREM BindingsAnswerWhole == Apart /\ BindingsSpec => []AnswersAreWhole
<1>1. /\ Pi!CompletedIsWhole /\ Pi!AcknowledgedIsStopped /\ Child!DoneIsWholeAndPaid
      /\ Dsh!CompletedIsCovered /\ Dsh!AckAgrees /\ Team!CompletedIsCovered
      => AnswersAreWhole
  BY DEF AnswersAreWhole
<1>2. Apart /\ BindingsSpec =>
        /\ []Pi!CompletedIsWhole /\ []Pi!AcknowledgedIsStopped /\ []Child!DoneIsWholeAndPaid
        /\ []Dsh!CompletedIsCovered /\ []Dsh!AckAgrees /\ []Team!CompletedIsCovered
  BY PiCompletesWhole, PiStopsForGood, ChildrenAreWholeAndPaid, DshAnswersCovered, DshAcksAgree, TeamAnswersCovered
  DEF Apart, BindingsSpec
<1> QED BY <1>1, <1>2, PTL

\* A child of a Pi session keeps to its grant whatever it spends, and nothing of it works once
\* close has returned.
THEOREM BindingsBoundTheirChildren == Apart /\ BindingsSpec => []ChildrenStayBounded
<1>1. Child!ChildStaysUnderCeiling /\ Child!ClosedIsQuiet => ChildrenStayBounded
  BY DEF ChildrenStayBounded
<1>2. Apart /\ BindingsSpec => []Child!ChildStaysUnderCeiling /\ []Child!ClosedIsQuiet
  BY ChildrenStayUnderCeiling, ChildClosedStaysQuiet DEF Apart, BindingsSpec
<1> QED BY <1>1, <1>2, PTL

\* A DSH session that has a fault is paused or says so, and one that was lost, disposed of or
\* uninstalled starts nothing before its journal was resumed.
THEOREM BindingsHonorPauses == Apart /\ BindingsSpec => PausesAreHonored
BY DshHonorsPauses DEF Apart, BindingsSpec, PausesAreHonored
=============================================================================
