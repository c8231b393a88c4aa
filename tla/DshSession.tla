----------------------------- MODULE DshSession -----------------------------
(***************************************************************************)
(* The binding of one native DSH session to its journal: operations run one at *)
(* a time, effects become turns or tool calls of the native session, hooks watch  *)
(* them, and any surprise latches a fault that pauses the journal.  The plugin is   *)
(* installed, uninstalled and lost, the native agent is disposed and reopened, and    *)
(* its user goes on working, at every await.                                            *)
(***************************************************************************)
EXTENDS Integers, FiniteSets

CONSTANTS
  None,
  Agents, Tools,  \* the effects of the journal: turns of the session, tool calls
  MaxTurns,       \* model answers of one execution (bound)
  MaxUpsets       \* surprises, user turns, losses, removals (bound)

VARIABLES
  journal,    \* durable: [mode, epoch, at]: dispatch mode, resumed or not, state of each effect
  installed,  \* the plugin is
  hooked,     \* the hooks of the native loop call the binding
  agent,      \* external: the native agent is live
  entry,      \* the binding's entry of the session or None
  op,         \* the operation in progress: [at, effect, stop]
  stray,      \* effects a binding that was uninstalled is still about to begin
  turn,       \* external: [phase, abort] or None
  inbox,      \* external: prompts no turn has begun
  prompts,    \* how often each effect was given to the native session
  readmitted, \* the session was created or resumed since it was last attached ("yes"), not yet
              \* ("no"), or it was attached without being paused ("lapsed")
  told, shaken, upsets

native  == <<turn, inbox>>
plugin  == <<installed, hooked, agent>>
history == <<prompts, readmitted, told, shaken>>
vars    == <<journal, plugin, entry, op, stray, native, history, upsets>>

Effects == Agents \cup Tools
Terminal == {"completed", "failed", "cancelled"}
Idle == turn = None /\ inbox = {}
Resting == [at |-> "rest", effect |-> None, stop |-> None]
Upset == upsets < MaxUpsets /\ upsets' = upsets + 1

NewEntry == [mine |-> TRUE, fault |-> FALSE, pauseError |-> FALSE, disposed |-> FALSE, busy |-> "no",
             running |-> None, dispatched |-> {}, receipts |-> [e \in Effects |-> None]]
NewRun(e) == [effect |-> e, preSteps |-> 0, missed |-> FALSE, answers |-> 0, ends |-> {}, last |-> None]

Running == entry # None /\ entry.running # None

\* healthy: nothing went wrong and the binding was not uninstalled.
Healthy == entry # None /\ ~entry.fault /\ ~entry.disposed

\* sessionFor: the live agent is the one the healthy entry was made for.
Admitted == Healthy /\ entry.mine /\ agent

\* The hooks see this session.
Watched == hooked /\ entry # None /\ entry.mine

Paused(j) == [j EXCEPT !.mode = IF @ = "active" THEN "paused" ELSE @]

\* stopEvolution: the refusal is armed whether or not the journal could be paused.
Stopped(x) == [x EXCEPT !.fault = TRUE, !.pauseError = @ \/ (journal.mode = "active" /\ journal'.mode = "active")]

\* An execution in progress when its session had a fault, or missed something.
Shakes == shaken' = shaken \cup (IF Running THEN {entry.running.effect} ELSE {})

\* stopEvolution of the entry x: its journal is paused unless the store fails just then.
Stops(x) == journal' \in {journal, Paused(journal)} /\ entry' = Stopped(x) /\ Shakes

Answers(e, verdict) == told' = [told EXCEPT ![e] = @ \cup ({verdict} \ {"unknown"})]

-----------------------------------------------------------------------------
(* Installing, attaching and leaving.                                            *)

Init ==
  /\ journal = [mode |-> "none", epoch |-> 0, at |-> [e \in Effects |-> "ready"]]
  /\ installed = FALSE /\ hooked = FALSE /\ agent = FALSE
  /\ entry = None /\ op = Resting /\ stray = {} /\ turn = None /\ inbox = {}
  /\ prompts = [e \in Effects |-> 0] /\ readmitted = "no"
  /\ told = [e \in Effects |-> {}] /\ shaken = {} /\ upsets = 0

\* The entry is replaced: an execution in progress goes on with the old one, where it can only
\* begin its prompt; its verdict is unknown and its effect stays sent.
Replaced ==
  /\ op' = Resting
  /\ stray' = IF op.at = "context" THEN stray \cup {op.effect} ELSE stray

\* create: a new journal, or the one there is if it was never resumed.
Creates ==
  IF journal.mode = "none"
  THEN /\ journal' = [journal EXCEPT !.mode = "active"]
       /\ entry' = NewEntry /\ readmitted' = "yes"
  ELSE /\ entry' = IF journal.epoch = 0 THEN NewEntry ELSE None
       /\ readmitted' = "lapsed" /\ UNCHANGED journal

\* Defect: a reopened journal is only read.
OpensUnpaused ==
  /\ journal.mode # "none"
  /\ entry' = NewEntry /\ UNCHANGED <<journal, readmitted>>

\* open: an active journal is paused until it is explicitly resumed, unless it cannot be read
\* just after it was opened.
Opens ==
  /\ journal.mode # "none"
  /\ \/ /\ journal' \in {journal, Paused(journal)}
        /\ entry' = IF journal'.mode = "active" THEN Stopped(NewEntry) ELSE NewEntry
        /\ UNCHANGED readmitted
     \/ entry' = NewEntry /\ readmitted' = "lapsed" /\ UNCHANGED journal

\* agent/created: the session is created, or resumed under a new agent.
AgentCreated ==
  /\ ~agent /\ agent' = TRUE
  /\ IF installed
     THEN (IF journal.mode = "none" THEN Creates ELSE Opens) /\ Replaced
     ELSE UNCHANGED <<journal, entry, readmitted, op, stray>>
  /\ UNCHANGED <<installed, hooked, native, prompts, told, shaken, upsets>>

\* The binding attaches the agents it finds; they count as existing, not as resumed.
Install ==
  /\ ~installed /\ installed' = TRUE /\ hooked' = TRUE
  /\ IF agent
     THEN Creates
     ELSE entry' = None /\ UNCHANGED <<journal, readmitted>>
  /\ Replaced
  /\ UNCHANGED <<agent, native, prompts, told, shaken, upsets>>

\* dispose: the session is paused and refused; ordinary work goes on without the hooks.
Uninstall ==
  /\ installed /\ installed' = FALSE /\ hooked' = FALSE /\ readmitted' = "no" /\ Upset
  /\ IF entry = None THEN UNCHANGED <<journal, entry, shaken>> ELSE Stops([entry EXCEPT !.disposed = TRUE])
  /\ UNCHANGED <<agent, op, stray, native, prompts, told>>

\* The native agent is disposed with its turn; the binding learns of it through its hook.
AgentDisposed ==
  /\ agent /\ agent' = FALSE /\ readmitted' = "no" /\ Upset
  /\ turn' = None /\ inbox' = {}
  /\ IF installed /\ entry # None THEN Stops([entry EXCEPT !.disposed = TRUE, !.mine = FALSE])
     ELSE /\ entry' = IF entry = None THEN None ELSE [entry EXCEPT !.mine = FALSE]
          /\ UNCHANGED <<journal, shaken>>
  /\ UNCHANGED <<installed, hooked, op, stray, prompts, told>>

\* The process is lost; the journal stays as it is.
Crash ==
  /\ Upset /\ installed' = FALSE /\ hooked' = FALSE /\ agent' = FALSE /\ readmitted' = "no"
  /\ entry' = None /\ op' = Resting /\ stray' = {} /\ turn' = None /\ inbox' = {}
  /\ UNCHANGED <<journal, prompts, told, shaken>>

\* The callbacks of the native loop are removed by somebody else.
HooksRemoved ==
  /\ Upset /\ hooked /\ hooked' = FALSE
  /\ UNCHANGED <<journal, installed, agent, entry, op, stray, native, history>>

\* An observer or a policy throws inside a hook, or the native board names an owner the
\* journal does not know; the native session goes on.
Unexpected ==
  /\ Upset /\ Watched /\ Stops(entry)
  /\ UNCHANGED <<plugin, op, stray, native, prompts, readmitted, told>>

-----------------------------------------------------------------------------
(* Operations: one at a time; a refused one latches the fault.                    *)

Fails == Stops([entry EXCEPT !.busy = "no", !.running = None]) /\ op' = Resting

\* The kernel claims one ready effect durably before the host is called.
Claims(e) ==
  /\ journal.mode = "active" /\ journal.at[e] = "ready"
  /\ journal' = [journal EXCEPT !.at[e] = "sent"]
  /\ op' = [op EXCEPT !.at = "context", !.effect = e]
  /\ entry' = [entry EXCEPT !.busy = "step"]
  /\ UNCHANGED shaken

\* A step, at once or when the turn it was queued behind is over.
Step(e) ==
  /\ Healthy /\ op = Resting
  /\ entry.busy = "no" \/ (entry.busy = "queued" /\ Idle)
  /\ IF turn # None THEN Fails ELSE Claims(e)
  /\ UNCHANGED <<plugin, stray, native, prompts, readmitted, told, upsets>>

Continue ==
  /\ Healthy /\ entry.busy = "no"
  /\ entry' = [entry EXCEPT !.busy = "queued"]
  /\ UNCHANGED <<journal, plugin, op, stray, native, history, upsets>>

\* The host refuses the effect: its context or its arguments cannot be read.
HostRefuses ==
  /\ op.at = "context" /\ Fails
  /\ UNCHANGED <<plugin, stray, native, prompts, readmitted, told, upsets>>

\* The prompt is queued in the native session; a tool is called.
Given(e) ==
  /\ prompts' = [prompts EXCEPT ![e] = @ + 1]
  /\ inbox' = IF e \in Agents /\ agent THEN inbox \cup {e} ELSE inbox

\* After the context was awaited nothing is asked again, neither the health nor the turn.
Begins ==
  /\ op.at = "context" /\ Given(op.effect)
  /\ entry' = [entry EXCEPT !.running = NewRun(op.effect), !.dispatched = @ \cup {op.effect}]
  /\ op' = [op EXCEPT !.at = "native"]
  /\ shaken' = IF Admitted THEN shaken ELSE shaken \cup {op.effect}
  /\ UNCHANGED <<journal, plugin, stray, turn, readmitted, told, upsets>>

\* The same in a binding that was uninstalled meanwhile: nobody is told its verdict.
StrayBegins(e) ==
  /\ e \in stray /\ stray' = stray \ {e}
  /\ Given(e) \/ UNCHANGED <<prompts, inbox>>
  /\ UNCHANGED <<journal, plugin, entry, op, turn, readmitted, told, shaken, upsets>>

\* One admitted request, and every event and tool call seen by the hooks.
Covered == entry.running.preSteps = 1 /\ ~entry.running.missed

\* A receipt is kept and journaled; anything unexpected makes it unknown and latches the fault.
Receives(surprise, ending) ==
  LET status == IF surprise \/ entry.fault \/ entry.disposed THEN "unknown" ELSE ending
      kept   == [entry EXCEPT !.receipts[op.effect] = status, !.running = None, !.busy = "no"]
      noted  == [journal EXCEPT !.at[op.effect] = status]
  IN /\ IF surprise THEN journal' \in {noted, Paused(noted)} /\ entry' = Stopped(kept) /\ Shakes
        ELSE journal' = noted /\ entry' = kept /\ UNCHANGED shaken
     /\ Answers(op.effect, status)
     /\ op' = Resting

Ended(last) ==
  CASE last = "completed" -> "completed"
    [] last = "aborted"   -> "cancelled"
    [] last = "error"     -> "failed"
    [] OTHER              -> "unknown"

\* The native session became idle.
AgentReturns ==
  /\ op.at = "native" /\ op.effect \in Agents /\ Idle /\ Running
  /\ Receives(~Covered \/ entry.running.answers > 1, Ended(entry.running.last))
  /\ UNCHANGED <<plugin, stray, native, prompts, readmitted, upsets>>

\* The counters of an answer contradict each other: no receipt at all.
UsageConflicts ==
  /\ op.at = "native" /\ op.effect \in Agents /\ Idle /\ Running
  /\ entry.running.answers > 0
  /\ Fails
  /\ UNCHANGED <<plugin, stray, native, prompts, readmitted, told, upsets>>

\* A tool ran through the native pipeline, between its hooks or without them.
ToolReturns(ending) ==
  /\ op.at = "native" /\ op.effect \in Tools /\ Running
  /\ Receives(~Watched, ending)
  /\ UNCHANGED <<plugin, stray, native, prompts, readmitted, upsets>>

NativeThrows ==
  /\ op.at = "native" /\ Running /\ Upset
  /\ Receives(TRUE, "unknown")
  /\ UNCHANGED <<plugin, stray, native, prompts, readmitted>>

\* A dispatch the binding remembers is answered or refused, never given again.
Again(e) ==
  /\ Answers(e, IF entry.receipts[e] = None THEN "unknown" ELSE entry.receipts[e])
  /\ UNCHANGED <<prompts, inbox>>

\* A caller repeats an effect.
Repeat(e) ==
  /\ Admitted /\ e \in entry.dispatched /\ Again(e)
  /\ UNCHANGED <<journal, plugin, entry, op, stray, turn, readmitted, shaken, upsets>>

\* Receipts the binding still holds settle what the journal does not know.
Reconcile ==
  /\ Healthy /\ entry.busy = "no"
  /\ journal' = [journal EXCEPT !.at = [e \in Effects |->
       IF @[e] \in {"sent", "unknown"} /\ entry.receipts[e] \in Terminal THEN entry.receipts[e] ELSE @[e]]]
  /\ UNCHANGED <<plugin, entry, op, stray, native, history, upsets>>

Pause ==
  /\ entry # None /\ journal' = Paused(journal)
  /\ UNCHANGED <<plugin, entry, op, stray, native, history, upsets>>

\* Defect: a degraded session may be resumed.
MayResumeBound == entry # None

\* Only a healthy binding resumes its journal; a fault needs a new one.
MayResume == Healthy

Resume ==
  /\ MayResume /\ journal.mode = "paused"
  /\ journal' = [journal EXCEPT !.mode = "active", !.epoch = 1]
  /\ readmitted' = "yes"
  /\ UNCHANGED <<plugin, entry, op, stray, native, prompts, told, shaken, upsets>>

-----------------------------------------------------------------------------
(* cancel: only the loop this binding runs.                                        *)

Cancel ==
  /\ Admitted /\ Running /\ entry.running.effect \in Agents /\ op.stop = None
  /\ op' = [op EXCEPT !.stop = op.effect]
  /\ turn' = IF turn = None THEN None ELSE [turn EXCEPT !.abort = TRUE]
  /\ UNCHANGED <<journal, plugin, entry, stray, inbox, history, upsets>>

\* A turn of the execution ended as aborted.
Aborted == "aborted" \in entry.running.ends

CancelAnswers ==
  /\ op.stop # None /\ Idle /\ Running
  /\ IF Aborted THEN Answers(op.stop, "native-ack") ELSE UNCHANGED told
  /\ op' = [op EXCEPT !.stop = None]
  /\ UNCHANGED <<journal, plugin, entry, stray, native, prompts, readmitted, shaken, upsets>>

-----------------------------------------------------------------------------
(* Native turns and the hooks inside them.                                         *)

\* What the hooks note of an execution; what they do not see is missing at its end.
Notes(change) ==
  /\ entry' = [entry EXCEPT !.running = IF Watched THEN change ELSE [change EXCEPT !.missed = TRUE]]
  /\ IF Watched THEN UNCHANGED shaken ELSE Shakes

TurnStarts(m) ==
  /\ agent /\ turn = None
  /\ IF m = "user" THEN Upset ELSE m \in inbox /\ UNCHANGED upsets
  /\ turn' = [phase |-> "open", abort |-> FALSE] /\ inbox' = inbox \ {m}
  /\ UNCHANGED <<journal, plugin, entry, op, stray, history>>

\* The first request of an execution is admitted, a second one is rejected.
PreStep ==
  /\ turn # None /\ turn.phase = "open"
  /\ IF Watched /\ Running
     THEN LET counted == [entry EXCEPT !.running.preSteps = @ + 1]
          IN IF entry.running.preSteps = 0
             THEN entry' = counted /\ turn' = [turn EXCEPT !.phase = "request"] /\ UNCHANGED <<journal, shaken>>
             ELSE Stops(counted) /\ turn' = None
     ELSE turn' = [turn EXCEPT !.phase = "request"] /\ UNCHANGED <<journal, entry, shaken>>
  /\ UNCHANGED <<plugin, op, stray, inbox, prompts, readmitted, told, upsets>>

\* Every request leaves an answer or an attempt; after its tools the loop asks again.  An
\* execution that awaits its own context leaves no time for one.
Answer(tools) ==
  /\ turn # None /\ turn.phase = "request" /\ op.at # "context"
  /\ turn' = [turn EXCEPT !.phase = IF tools THEN "open" ELSE "answered"]
  /\ IF Running
     THEN entry.running.answers < MaxTurns /\ Notes([entry.running EXCEPT !.answers = @ + 1])
     ELSE UNCHANGED <<entry, shaken>>
  /\ UNCHANGED <<journal, plugin, op, stray, inbox, prompts, readmitted, told, upsets>>

TurnEnds ==
  /\ turn # None /\ turn.phase = "answered"
  /\ IF Running
     THEN \E kind \in {"completed", "error"} \cup (IF turn.abort THEN {"aborted"} ELSE {}) :
            Notes([entry.running EXCEPT !.ends = @ \cup {kind}, !.last = kind])
     ELSE UNCHANGED <<entry, shaken>>
  /\ turn' = None
  /\ UNCHANGED <<journal, plugin, op, stray, inbox, prompts, readmitted, told, upsets>>

Next ==
  \/ AgentCreated \/ Install \/ Uninstall \/ AgentDisposed \/ Crash \/ HooksRemoved \/ Unexpected
  \/ \E e \in Effects : Step(e) \/ Repeat(e) \/ StrayBegins(e)
  \/ Continue \/ HostRefuses \/ Begins \/ AgentReturns \/ UsageConflicts \/ NativeThrows
  \/ \E ending \in {"completed", "failed"} : ToolReturns(ending)
  \/ Reconcile \/ Pause \/ Resume \/ Cancel \/ CancelAnswers
  \/ \E m \in Agents \cup {"user"} : TurnStarts(m)
  \/ PreStep \/ TurnEnds \/ \E tools \in BOOLEAN : Answer(tools)

Spec == Init /\ [][Next]_vars

-----------------------------------------------------------------------------
(* Properties.                                                                      *)

\* A definite verdict is only told of an execution that had no fault, was not disposed of and
\* was seen by the hooks from its first event to its last.
CompletedIsCovered == \A e \in Effects : told[e] \cap Terminal # {} => e \notin shaken

\* A cancellation the native session acknowledged is not of an effect that is told completed.
AckAgrees == \A e \in Effects : "native-ack" \in told[e] => "completed" \notin told[e]

\* A session with a fault has a paused journal, or says that it could not pause it.
DegradedIsPaused ==
  entry # None /\ entry.fault => journal.mode # "active" \/ entry.pauseError

\* What starts an effect is a journal nobody has to re-admit.
OnlyReadmittedStarts ==
  \A e \in Effects : journal.at[e] = "ready" /\ journal'.at[e] = "sent" => readmitted # "no"

\* Every step leaves a session that has a fault paused, and a session that was lost, disposed of
\* or uninstalled dispatches nothing before its journal was explicitly resumed, unless its agent
\* was there before the plugin or its journal was unreadable.
PausesAreHonored == [][DegradedIsPaused' /\ OnlyReadmittedStarts]_vars
=============================================================================
