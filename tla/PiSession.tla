----------------------------- MODULE PiSession ------------------------------
(***************************************************************************)
(* The binding of one existing Pi session as a host: it prompts the native     *)
(* session for an effect, watches the hooks of the turn, and answers with a      *)
(* receipt that it also appends to the session's own entries.  The session can     *)
(* be replaced, shut down or lost at every await, users keep taking turns in it,   *)
(* hooks and appends fail, and callers repeat their requests.                       *)
(***************************************************************************)
EXTENDS HostPort, Sequences

CONSTANTS
  Effects,      \* effects of kind host.agent, each with its own idempotency key
  Messages,     \* what an assistant message may report: stop reason and meters
  MaxRequests,  \* provider requests of one turn (bound)
  MaxUpsets     \* replacements, losses, failures and user turns (bound)

VARIABLES
  binding,  \* [attached, idle, fault, unloaded]: the flags of the binding
  live,     \* the getter returns the bound session
  turn,     \* native: who the present turn is for, None when the session is idle
  run,      \* the active invocation or None
  abort,    \* the cancellation that awaits the native abort: [effect, settled] or None
  memo,     \* effects: the latest entry the binding holds of each effect
  log,      \* the latest entry of each effect in the session's file
  expired,  \* effects whose deadline passed
  prompts,  \* how often the native session was prompted for each effect
  told,     \* the definite answers given about each effect
  reissued, \* history: effects the caller asked for once more after "not-executed"
  marred,   \* effects whose turn was cut off by a stop or a fault
  upsets

vars == <<binding, live, turn, run, abort, memo, log, expired, prompts, told, reissued, marred, upsets>>

Terminal == {"completed", "failed", "cancelled"}
Status == Terminal \cup {"not-executed", "unknown"}
Entry == Status \cup {"none", "dispatch"}

-----------------------------------------------------------------------------
(* Usage.                                                                       *)

\* mapPiUsage: the row of one message, None when its components disagree.  A provider's own
\* counts have no cache write; a zero receipt of a failed SDK call is not a meter.
Sum3(a, b, c) == IF None \in {a, b, c} THEN None ELSE a + b + c

MapPiUsage(request, m) ==
  LET blank == m.source = "sdk" /\ m.stop \in {"aborted", "error"} /\ m.total = 0
      count(v) == IF blank THEN None ELSE v
      written == IF m.source = "provider" THEN 0 ELSE count(m.cacheWrite)
      fixed == Sum3(count(m.input), count(m.cacheRead), count(m.output))
      expected == IF None \in {fixed, written} THEN None ELSE fixed + written
      total == count(m.total)
  IN IF \/ count(m.input) # None /\ count(m.input) < 0
        \/ None \notin {m.reasoning, count(m.output)} /\ m.reasoning > m.output
        \/ None \notin {expected, total} /\ total # expected
     THEN None
     ELSE [request |-> request, complete |-> /\ None \notin {fixed, total}
                                             /\ total > 0
                                             /\ m.source = "provider" \/ m.stop \notin {"aborted", "error"},
           reasoning |-> m.reasoning, output |-> count(m.output)]

\* invocationUsage and usageIsComplete: every request of the invocation has its complete row.
RowsComplete(r) ==
  /\ r.requests > 0
  /\ Cardinality(r.rows) = r.requests
  /\ UsageIsComplete(r.rows)

-----------------------------------------------------------------------------
(* The binding.                                                                  *)

NoRun == [effect |-> None, started |-> FALSE, ended |-> FALSE, settled |-> FALSE,
          interrupted |-> FALSE, stop |-> None, requests |-> 0, rows |-> {}]
Started == run # None /\ run.started
IsIdle == binding.attached /\ ~binding.fault /\ binding.idle /\ run = None /\ live /\ turn = None
Gate == binding.attached /\ live /\ ~binding.fault

Detached == [binding EXCEPT !.attached = FALSE, !.idle = FALSE]
Poisoned == [binding EXCEPT !.fault = TRUE, !.idle = FALSE]
Interrupted == IF run = None THEN None ELSE [run EXCEPT !.interrupted = TRUE]
\* The turn in flight, if any, no longer counts as undisturbed.
Marred == marred \cup (IF Started THEN {run.effect} ELSE {})

Answers(e, verdict) == told' = [told EXCEPT ![e] = @ \cup ({verdict} \ {"unknown"})]
Upset == upsets < MaxUpsets /\ upsets' = upsets + 1

Init ==
  /\ binding = [attached |-> FALSE, idle |-> FALSE, fault |-> FALSE, unloaded |-> FALSE]
  /\ live = TRUE /\ turn = None /\ run = None /\ abort = None
  /\ memo = [e \in Effects |-> "none"] /\ log = memo
  /\ expired = {} /\ marred = {} /\ upsets = 0
  /\ prompts = [e \in Effects |-> 0]
  /\ told = [e \in Effects |-> {}] /\ reissued = {}

\* session_start: what the file says replaces what the binding held.
SessionStart ==
  /\ live /\ ~binding.unloaded
  /\ IF \E e \in Effects : {memo[e], log[e]} \subseteq Status /\ memo[e] # log[e]
     THEN binding' = Poisoned /\ UNCHANGED memo
     ELSE /\ binding' = [binding EXCEPT !.attached = TRUE, !.idle = turn = None]
          /\ memo' = [e \in Effects |-> IF log[e] = "none" THEN memo[e] ELSE log[e]]
  /\ UNCHANGED <<live, turn, run, abort, log, expired, prompts, told, reissued, marred, upsets>>

\* session_shutdown, or any event of another session.
Stop ==
  /\ Upset /\ binding.attached
  /\ binding' = Detached /\ run' = Interrupted /\ marred' = Marred
  /\ UNCHANGED <<live, turn, abort, memo, log, expired, prompts, told, reissued>>

Unload ==
  /\ Upset /\ ~binding.unloaded
  /\ binding' = [Detached EXCEPT !.unloaded = TRUE] /\ run' = Interrupted /\ marred' = Marred
  /\ UNCHANGED <<live, turn, abort, memo, log, expired, prompts, told, reissued>>

\* A hook throws; the host carries on and the binding latches the fault.
HookFails ==
  /\ Upset /\ ~binding.unloaded /\ ~binding.fault /\ turn # None
  /\ binding' = Poisoned /\ marred' = Marred
  /\ UNCHANGED <<live, turn, run, abort, memo, log, expired, prompts, told, reissued>>

-----------------------------------------------------------------------------
(* execute.                                                                      *)

\* Repeats of a request that is being served join it; recorded outcomes are repeated;
\* a recorded dispatch is never prompted again.  Nothing else is remembered: an effect without
\* an entry is new to the binding, also when a cancellation of it was confirmed.
Execute(e) ==
  /\ Gate
  /\ run # None => run.effect # e
  /\ IF memo[e] # "none"
     THEN Answers(e, IF memo[e] = "dispatch" THEN "unknown" ELSE memo[e]) /\ UNCHANGED run
     ELSE /\ IsIdle /\ e \notin expired
          /\ run' = [NoRun EXCEPT !.effect = e]
          /\ UNCHANGED told
  /\ reissued' = IF "not-executed" \in told[e] THEN reissued \cup {e} ELSE reissued
  /\ UNCHANGED <<binding, live, turn, abort, memo, log, expired, prompts, marred, upsets>>

\* The context cannot be resolved, the gate closed meanwhile, the session is busy or the
\* deadline passed: an error and no entry.
PrepareRefused ==
  /\ run # None /\ ~run.started
  /\ run' = None
  /\ UNCHANGED <<binding, live, turn, abort, memo, log, expired, prompts, told, reissued, marred, upsets>>

\* The prompt could not be built, or an entry not written: the outcome is unknown and only
\* the binding remembers it.
InvokeFails ==
  /\ Upset /\ run # None
  /\ run.started => turn = None
  /\ binding' = Poisoned /\ run' = None
  /\ memo' = [memo EXCEPT ![run.effect] = "unknown"]
  /\ marred' = Marred
  /\ UNCHANGED <<live, turn, abort, log, expired, prompts, told, reissued>>

\* Interrupted while it was prepared.
NeverPrompted ==
  /\ run # None /\ ~run.started /\ run.interrupted /\ Gate
  /\ memo' = [memo EXCEPT ![run.effect] = "not-executed"]
  /\ log' = [log EXCEPT ![run.effect] = "not-executed"]
  /\ Answers(run.effect, "not-executed")
  /\ run' = None
  /\ UNCHANGED <<binding, live, turn, abort, expired, prompts, reissued, marred, upsets>>

\* Defect: an interruption is only looked at once the turn is over.
PromptInterrupted ==
  /\ run # None /\ ~run.started /\ Gate
  /\ binding.idle /\ turn = None /\ run.effect \notin expired
  /\ memo' = [memo EXCEPT ![run.effect] = "dispatch"]
  /\ log' = [log EXCEPT ![run.effect] = "dispatch"]
  /\ run' = [run EXCEPT !.started = TRUE]
  /\ turn' = run.effect
  /\ prompts' = [prompts EXCEPT ![run.effect] = @ + 1]
  /\ binding' = [binding EXCEPT !.idle = FALSE]
  /\ UNCHANGED <<live, abort, expired, told, reissued, marred, upsets>>

\* The entry is written before the session is prompted.
Prompt ==
  /\ run # None /\ ~run.started /\ ~run.interrupted /\ Gate
  /\ binding.idle /\ turn = None /\ run.effect \notin expired
  /\ memo' = [memo EXCEPT ![run.effect] = "dispatch"]
  /\ log' = [log EXCEPT ![run.effect] = "dispatch"]
  /\ run' = [run EXCEPT !.started = TRUE]
  /\ turn' = run.effect
  /\ prompts' = [prompts EXCEPT ![run.effect] = @ + 1]
  /\ binding' = [binding EXCEPT !.idle = FALSE]
  /\ UNCHANGED <<live, abort, expired, told, reissued, marred, upsets>>

\* The status of a turn that is over: unknown unless the binding saw all of it.
Outcome ==
  IF \/ binding.fault \/ run.interrupted \/ ~binding.attached \/ ~live
     \/ ~run.ended \/ ~run.settled \/ ~RowsComplete(run)
  THEN "unknown"
  ELSE CASE run.stop = "aborted" -> "cancelled"
         [] run.stop = "error" -> "failed"
         [] run.stop = "stop" -> "completed"
         [] OTHER -> "unknown"

\* A detached binding cannot write; it keeps the receipt to itself.
Persisted(e, status) ==
  log' = IF binding.attached /\ live THEN [log EXCEPT ![e] = status] ELSE log

FinishInvocation ==
  /\ Started /\ turn = None
  /\ memo' = [memo EXCEPT ![run.effect] = Outcome]
  /\ Persisted(run.effect, Outcome)
  /\ Answers(run.effect, Outcome)
  /\ run' = None
  /\ UNCHANGED <<binding, live, turn, abort, expired, prompts, reissued, marred, upsets>>

-----------------------------------------------------------------------------
(* Hooks of a turn.  They are delivered for the bound session, replaced or not.   *)

Heard == ~binding.unloaded /\ Started

BeforeProviderRequest ==
  /\ turn # None /\ Heard /\ run.requests < MaxRequests
  /\ run' = [run EXCEPT !.requests = @ + 1]
  /\ UNCHANGED <<binding, live, turn, abort, memo, log, expired, prompts, told, reissued, marred, upsets>>

MessageEnd(m) ==
  /\ turn # None /\ Heard
  /\ LET row == MapPiUsage(run.requests, m)
         conflict == row = None \/ UsageConflicts(run.rows \cup {row})
         stopped == [run EXCEPT !.stop = m.stop]
     IN IF run.requests = 0 THEN run' = stopped /\ UNCHANGED <<binding, marred>>
        ELSE IF conflict THEN run' = stopped /\ binding' = Poisoned /\ marred' = Marred
        ELSE run' = [stopped EXCEPT !.rows = @ \cup {row}] /\ UNCHANGED <<binding, marred>>
  /\ UNCHANGED <<live, turn, abort, memo, log, expired, prompts, told, reissued, upsets>>

\* An end is still before retries, compaction and queued work: more requests may follow.
AgentEnd ==
  /\ turn # None /\ Heard
  /\ run' = [run EXCEPT !.ended = TRUE]
  /\ UNCHANGED <<binding, live, turn, abort, memo, log, expired, prompts, told, reissued, marred, upsets>>

AgentSettled ==
  /\ turn # None
  /\ turn' = None
  /\ binding' = IF binding.unloaded THEN binding ELSE [binding EXCEPT !.idle = TRUE]
  /\ run' = IF Heard THEN [run EXCEPT !.settled = TRUE] ELSE run
  /\ abort' = IF abort # None /\ Heard /\ run.effect = abort.effect
              THEN [abort EXCEPT !.settled = TRUE] ELSE abort
  /\ UNCHANGED <<live, memo, log, expired, prompts, told, reissued, marred, upsets>>

\* A user takes a turn; what a finished prompt left to do runs before any new input is read.
UserTurn ==
  /\ Upset /\ turn = None /\ ~Started
  /\ turn' = "user"
  /\ binding' = IF binding.unloaded THEN binding ELSE [binding EXCEPT !.idle = FALSE]
  /\ UNCHANGED <<live, run, abort, memo, log, expired, prompts, told, reissued, marred>>

-----------------------------------------------------------------------------
(* cancel and reconcile.                                                          *)

\* Before the prompt a cancellation only marks the run, and is certain.
CancelPrepared(e) ==
  /\ Gate /\ run # None /\ run.effect = e /\ ~run.started
  /\ run' = Interrupted
  /\ Answers(e, "not-executed")
  /\ UNCHANGED <<binding, live, turn, abort, memo, log, expired, prompts, reissued, marred, upsets>>

CancelStarted(e) ==
  /\ Gate /\ abort = None /\ Started /\ run.effect = e
  /\ abort' = [effect |-> e, settled |-> run.settled]
  /\ UNCHANGED <<binding, live, turn, run, memo, log, expired, prompts, told, reissued, marred, upsets>>

\* The abort returned: a stop is acknowledged only for a run that settled in an idle session.
Acknowledged == binding.attached /\ live /\ abort.settled /\ turn = None

AbortReturns ==
  /\ abort # None
  /\ IF Acknowledged THEN Answers(abort.effect, "native-ack") ELSE UNCHANGED told
  /\ abort' = None
  /\ UNCHANGED <<binding, live, turn, run, memo, log, expired, prompts, reissued, marred, upsets>>

AbortFails ==
  /\ Upset /\ abort # None
  /\ binding' = Poisoned /\ marred' = Marred /\ abort' = None
  /\ UNCHANGED <<live, turn, run, memo, log, expired, prompts, told, reissued>>

Reconcile(e) ==
  /\ Gate /\ memo[e] \in Terminal \cup {"not-executed"}
  /\ Answers(e, memo[e])
  /\ UNCHANGED <<binding, live, turn, run, abort, memo, log, expired, prompts, reissued, marred, upsets>>

-----------------------------------------------------------------------------
(* The world.                                                                     *)

Replaced ==
  /\ Upset /\ live /\ live' = FALSE
  /\ UNCHANGED <<binding, turn, run, abort, memo, log, expired, prompts, told, reissued, marred>>

Returned ==
  /\ ~live /\ live' = TRUE
  /\ UNCHANGED <<binding, turn, run, abort, memo, log, expired, prompts, told, reissued, marred, upsets>>

DeadlinePasses(e) ==
  /\ e \notin expired /\ expired' = expired \cup {e}
  /\ UNCHANGED <<binding, live, turn, run, abort, memo, log, prompts, told, reissued, marred, upsets>>

\* The process is lost; the session's file stays.
Crash ==
  /\ Upset
  /\ binding' = [attached |-> FALSE, idle |-> FALSE, fault |-> FALSE, unloaded |-> FALSE]
  /\ live' = TRUE /\ turn' = None /\ run' = None /\ abort' = None
  /\ memo' = [e \in Effects |-> "none"]
  /\ marred' = Marred
  /\ UNCHANGED <<log, expired, prompts, told, reissued>>

Next ==
  \/ SessionStart \/ Stop \/ Unload \/ HookFails
  \/ \E e \in Effects : Execute(e) \/ CancelPrepared(e) \/ CancelStarted(e) \/ Reconcile(e) \/ DeadlinePasses(e)
  \/ PrepareRefused \/ InvokeFails \/ NeverPrompted \/ Prompt \/ FinishInvocation
  \/ BeforeProviderRequest \/ (\E m \in Messages : MessageEnd(m)) \/ AgentEnd \/ AgentSettled \/ UserTurn
  \/ AbortReturns \/ AbortFails \/ Replaced \/ Returned \/ Crash

Spec == Init /\ [][Next]_vars

-----------------------------------------------------------------------------
(* Properties.                                                                   *)

\* Success is reported only of a turn that the binding was attached to and healthy during
\* the whole of.
CompletedIsWhole == \A e \in Effects : "completed" \in told[e] => e \notin marred

\* Once a stop is acknowledged nothing of the effect runs in the native session.
AcknowledgedIsStopped == \A e \in Effects : "native-ack" \in told[e] => turn # e
=============================================================================
