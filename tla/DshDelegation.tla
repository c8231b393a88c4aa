---------------------------- MODULE DshDelegation ----------------------------
(***************************************************************************)
(* Delegation from a DSH lead to native teammates: the evidence of a dispatch *)
(* is put into a store before the native call, hooks of the child's turns add    *)
(* what they admitted, and a receipt is read off the child's transcript.  The     *)
(* store is shared by every instance of the binding, so executions, repeats,       *)
(* reconciliations and hooks of one record interleave at every await; each           *)
(* write names the revision it read.                                                 *)
(***************************************************************************)
EXTENDS Integers, FiniteSets, Sequences

CONSTANTS
  None,
  Delegations, Children,
  Target,      \* the child each delegation goes to
  Existing,    \* the delegations handed to a child the team has
  Threads,     \* executions in progress
  Concurrency, \* of the grant
  Calls,       \* ids of tool calls
  MaxEvents,   \* of one transcript (bound)
  MaxUpsets    \* user turns, failures, removals and losses (bound)

VARIABLES
  open,     \* the hooks of an instance are registered
  held,     \* delegations whose claim, epoch and grant are current in the kernel
  records,  \* the store: the record of each delegation or None
  run,      \* what each execution awaits
  team,     \* external: the children that exist
  turns,    \* external: the turn of each child
  inbox,    \* external: messages no turn has read
  log,      \* external: the transcript of each child
  tools,    \* external: tool calls in progress
  sent,     \* how often each delegation was given to a child
  stopping, \* cancellations that await an interrupted child
  told,     \* the definite answers about each delegation
  strays,   \* delegations whose child made a request or a call that no hook admitted
  lost,     \* delegations whose child was lost with a request that nobody had answered
  upsets

store == <<records>>
native == <<team, turns, inbox, log, tools>>
vars == <<open, held, store, run, native, sent, stopping, told, strays, lost, upsets>>

Terminal == {"completed", "failed", "cancelled"}
Resting == [at |-> "rest", d |-> None, from |-> 0]
Upset == upsets < MaxUpsets /\ upsets' = upsets + 1

Recorded == {d \in Delegations : records[d] # None}
Unsettled == {d \in Recorded : records[d].phase # "settled"}

NewRecord(d, from) ==
  [phase |-> "prepared", child |-> IF d \in Existing THEN Target[d] ELSE None, from |-> from, message |-> FALSE,
   receipt |-> None, preSteps |-> 0, unconfirmed |-> FALSE, gated |-> {}, results |-> {}]

\* save: a write names the revision it read; a gate that awaits its policy keeps an older one.
Saved(d, record) ==
  /\ records' = [records EXCEPT ![d] = record]
  /\ tools' = {IF x.d = d THEN [x EXCEPT !.current = FALSE] ELSE x : x \in tools}

Answers(d, verdict) == told' = [told EXCEPT ![d] = @ \cup ({verdict} \ {"unknown"})]

-----------------------------------------------------------------------------
(* The receipt of a transcript.                                                 *)

Window(d) == SubSeq(log[records[d].child], records[d].from, Len(log[records[d].child]))
Occurs(d, type) == {i \in DOMAIN Window(d) : Window(d)[i].type = type}
LastEnd(d) ==
  IF Occurs(d, "end") = {} THEN None
  ELSE LET last == CHOOSE i \in Occurs(d, "end") : \A j \in Occurs(d, "end") : j <= i
       IN Window(d)[last].by

\* The child read the message; a fresh child starts with its prompt.
Consumed(d) == records[d].message => \E i \in Occurs(d, "message") : Window(d)[i].by = d

\* The hooks admitted the one request and saw both ends of every call.
Covered(d) ==
  /\ records[d].preSteps = 1
  /\ ~records[d].unconfirmed
  /\ \A i \in Occurs(d, "call") : Window(d)[i].by \in records[d].gated \cap records[d].results

Inspected(d) ==
  IF \/ turns[records[d].child] # None \/ LastEnd(d) = None
     \/ Cardinality(Occurs(d, "assistant")) # 1 \/ ~Consumed(d) \/ ~Covered(d)
  THEN "unknown"
  ELSE CASE LastEnd(d) = "completed" -> "completed"
         [] LastEnd(d) = "aborted" -> "cancelled"
         [] LastEnd(d) = "error" -> "failed"
         [] OTHER -> "unknown"

\* settle: a settled record repeats its receipt, any other is read off the transcript again.
Settles(d) ==
  IF records[d].phase = "settled" THEN Answers(d, records[d].receipt) /\ UNCHANGED <<records, tools>>
  ELSE LET status == IF records[d].child = None THEN "unknown" ELSE Inspected(d)
       IN /\ Saved(d, [records[d] EXCEPT !.receipt = status,
                                         !.phase = IF status = "unknown" THEN "unknown" ELSE "settled"])
          /\ Answers(d, status)

-----------------------------------------------------------------------------
(* execute.                                                                      *)

Init ==
  /\ open = TRUE /\ held \in SUBSET Delegations /\ upsets = 0
  /\ records = [d \in Delegations |-> None]
  /\ run = [t \in Threads |-> Resting]
  /\ team = {Target[d] : d \in Existing} \ {Target[d] : d \in Delegations \ Existing}
  /\ turns = [c \in Children |-> None] /\ inbox = [c \in Children |-> {}]
  /\ log = [c \in Children |-> <<>>] /\ tools = {}
  /\ sent = [d \in Delegations |-> 0] /\ stopping = {}
  /\ told = [d \in Delegations |-> {}] /\ strays = {} /\ lost = {}

\* A recorded delegation is answered from its record or refused, never sent again.
Repeat(d) ==
  /\ open /\ d \in Recorded \ Unsettled
  /\ Answers(d, records[d].receipt)
  /\ UNCHANGED <<open, held, store, run, native, sent, stopping, strays, lost, upsets>>

\* Admitted by the kernel's claim; a handoff needs an idle member.  The board is awaited next.
Admit(t, d) ==
  /\ open /\ run[t] = Resting /\ records[d] = None /\ d \in held
  /\ d \in Existing => Target[d] \in team /\ turns[Target[d]] = None
  /\ run' = [run EXCEPT ![t] = [at |-> "board", d |-> d, from |-> IF d \in Existing THEN Len(log[Target[d]]) + 1 ELSE 1]]
  /\ UNCHANGED <<open, held, store, native, sent, stopping, told, strays, lost, upsets>>

\* Defect: a record that appeared since the first look is overwritten.
NotYetRecorded(d) == TRUE

\* put with no expected revision: the record of another execution wins.
IsUnrecorded(d) == records[d] = None

\* The evidence of the dispatch is stored before the child is called.
Dispatch(t) ==
  LET d == run[t].d
  IN /\ run[t].at = "board"
     /\ IF /\ \A x \in Unsettled : Target[x] # Target[d]
           /\ Cardinality(Unsettled) < Concurrency
           /\ IsUnrecorded(d)
        THEN /\ Saved(d, NewRecord(d, run[t].from))
             /\ sent' = [sent EXCEPT ![d] = @ + 1]
             /\ run' = [run EXCEPT ![t].at = "sending"]
        ELSE run' = [run EXCEPT ![t] = Resting] /\ UNCHANGED <<records, tools, sent>>
     /\ UNCHANGED <<open, held, team, turns, inbox, log, stopping, told, strays, lost, upsets>>

\* External: the team service makes the child, which starts on its prompt, or enqueues the message.
Arrives(t) ==
  LET d == run[t].d   c == Target[d]
  IN /\ run[t].at = "sending"
     /\ IF d \in Existing
        THEN inbox' = [inbox EXCEPT ![c] = @ \cup {d}] /\ UNCHANGED <<team, turns, log>>
        ELSE /\ team' = team \cup {c}
             /\ turns' = [turns EXCEPT ![c] = [by |-> d, at |-> "new", abort |-> FALSE]]
             /\ log' = [log EXCEPT ![c] = Append(@, [type |-> "message", by |-> d])]
             /\ UNCHANGED inbox
     /\ run' = [run EXCEPT ![t].at = "sent"]
     /\ UNCHANGED <<open, held, store, tools, sent, stopping, told, strays, lost, upsets>>

\* The call returns; whatever was stored meanwhile is written over with the running phase.
SendReturns(t) ==
  LET d == run[t].d
  IN /\ run[t].at = "sent"
     /\ Saved(d, [records[d] EXCEPT !.child = Target[d], !.message = d \in Existing, !.phase = "running"])
     /\ run' = [run EXCEPT ![t].at = "projecting"]
     /\ UNCHANGED <<open, held, team, turns, inbox, log, sent, stopping, told, strays, lost, upsets>>

\* The task was created on the board: its id is saved and its owner assigned.
Projected(t) ==
  /\ run[t].at = "projecting"
  /\ Saved(run[t].d, records[run[t].d])
  /\ run' = [run EXCEPT ![t].at = "waiting"]
  /\ UNCHANGED <<open, held, team, turns, inbox, log, sent, stopping, told, strays, lost, upsets>>

\* The child became idle, or had left when it was looked up.
Waited(t) ==
  /\ run[t].at \in {"projecting", "waiting"}
  /\ turns[Target[run[t].d]] = None
  /\ Settles(run[t].d)
  /\ run' = [run EXCEPT ![t] = Resting]
  /\ UNCHANGED <<open, held, team, turns, inbox, log, sent, stopping, strays, lost, upsets>>

\* A native call throws: the dispatch stays on record with an unknown outcome.
NativeFails(t) ==
  LET d == run[t].d
  IN /\ Upset /\ run[t].at \in {"sending", "sent", "projecting", "waiting"}
     /\ Saved(d, [records[d] EXCEPT !.phase = "unknown", !.receipt = "unknown"])
     /\ run' = [run EXCEPT ![t] = Resting]
     /\ UNCHANGED <<open, held, team, turns, inbox, log, sent, stopping, told, strays, lost>>

\* The board or the store refuses: the execution ends and the record stays as it is.
Refused(t) ==
  /\ Upset /\ run[t].at \in {"board", "projecting", "waiting"}
  /\ run' = [run EXCEPT ![t] = Resting]
  /\ UNCHANGED <<open, held, store, native, sent, stopping, told, strays, lost>>

-----------------------------------------------------------------------------
(* Turns of a child and the hooks inside them.                                   *)

\* The unsettled record of a child, if any: by its id, or by its name before the id is known.
RecordOf(c) == {d \in Unsettled : Target[d] = c}

\* The delegations a request of the child is charged to while they are undecided.
Undecided(c) == {d \in Recorded : Target[d] = c /\ told[d] = {}}

\* A message of the inbox, or of a user, begins a turn.
TurnStarts(c, m) ==
  /\ c \in team /\ turns[c] = None /\ Len(log[c]) < MaxEvents
  /\ IF m = "user" THEN Upset ELSE m \in inbox[c] /\ UNCHANGED upsets
  /\ inbox' = [inbox EXCEPT ![c] = @ \ {m}]
  /\ turns' = [turns EXCEPT ![c] = [by |-> m, at |-> "new", abort |-> FALSE]]
  /\ log' = [log EXCEPT ![c] = Append(@, [type |-> "message", by |-> m])]
  /\ UNCHANGED <<open, held, store, run, team, tools, sent, stopping, told, strays, lost>>

\* Before every model request: the one request of a delegation that is still held.
PreStep(c) ==
  /\ turns[c] # None
  /\ turns[c].at \in {"new", "answered"} /\ \A x \in tools : x.child # c
  /\ turns[c].at = "answered" => Len(log[c]) < MaxEvents
  /\ IF open /\ RecordOf(c) # {}
     THEN \E d \in RecordOf(c) :
            LET count == records[d].preSteps + 1
                allowed == count = 1 /\ d \in held
            IN /\ Saved(d, [records[d] EXCEPT !.child = c, !.preSteps = count, !.unconfirmed = ~allowed])
               /\ turns' = [turns EXCEPT ![c].at = IF allowed THEN "entered" ELSE "over"]
               /\ UNCHANGED strays
     ELSE /\ turns' = [turns EXCEPT ![c].at = "entered"]
          /\ strays' = strays \cup Undecided(c)
          /\ UNCHANGED <<records, tools>>
  /\ UNCHANGED <<open, held, run, team, inbox, log, sent, stopping, told, lost, upsets>>

\* The model answers; a failed request leaves its attempt.
Assistant(c, ok) ==
  /\ turns[c] # None
  /\ turns[c].at = "entered"
  /\ turns' = [turns EXCEPT ![c].at = IF ok THEN "answered" ELSE "failed"]
  /\ log' = [log EXCEPT ![c] = Append(@, [type |-> "assistant", by |-> turns[c].by])]
  /\ UNCHANGED <<open, held, store, run, team, inbox, tools, sent, stopping, told, strays, lost, upsets>>

\* tools/pre-execute: admitted by the record, then the policy is awaited.
ToolCall(c, k) ==
  /\ turns[c] # None
  /\ turns[c].at = "answered" /\ Len(log[c]) < MaxEvents
  /\ \A e \in Children : \A i \in DOMAIN log[e] : log[e][i].type = "call" => log[e][i].by # k
  /\ log' = [log EXCEPT ![c] = Append(@, [type |-> "call", by |-> k])]
  /\ IF open /\ RecordOf(c) # {}
     THEN \E d \in RecordOf(c) :
            /\ records' = [records EXCEPT ![d].child = c]
            /\ tools' = tools \cup {[child |-> c, call |-> k, d |-> d, current |-> TRUE,
                                     at |-> IF d \in held THEN "gate" ELSE "denied"]}
            /\ UNCHANGED strays
     ELSE /\ tools' = tools \cup {[child |-> c, call |-> k, d |-> None, current |-> TRUE, at |-> "running"]}
          /\ strays' = strays \cup Undecided(c)
          /\ UNCHANGED records
  /\ UNCHANGED <<open, held, run, team, turns, inbox, sent, stopping, told, lost, upsets>>

\* The policy answers: the call is recorded in the revision that was read before, or denied.
GateReturns(x, allowed) ==
  LET passed == allowed /\ x.current
      saved == {IF y.d = x.d THEN [y EXCEPT !.current = FALSE] ELSE y : y \in tools \ {x}}
  IN /\ x.at = "gate"
     /\ IF passed
        THEN /\ records' = [records EXCEPT ![x.d].gated = @ \cup {x.call}]
             /\ tools' = saved \cup {[x EXCEPT !.at = "running", !.current = FALSE]}
        ELSE /\ tools' = (tools \ {x}) \cup {[x EXCEPT !.at = "denied"]}
             /\ UNCHANGED records
     /\ UNCHANGED <<open, held, run, team, turns, inbox, log, sent, stopping, told, strays, lost, upsets>>

\* tools/result, of a denied call as well.
ToolResult(x) ==
  /\ x.at \in {"running", "denied"}
  /\ IF open /\ RecordOf(x.child) # {}
     THEN \E d \in RecordOf(x.child) :
            /\ records' = [records EXCEPT ![d].child = x.child, ![d].results = @ \cup {x.call}]
            /\ tools' = {IF y.d = d THEN [y EXCEPT !.current = FALSE] ELSE y : y \in tools \ {x}}
     ELSE tools' = tools \ {x} /\ UNCHANGED records
  /\ UNCHANGED <<open, held, run, team, turns, inbox, log, sent, stopping, told, strays, lost, upsets>>

\* An interrupted request leaves its attempt too, and may still have been quicker.
TurnEnds(c) ==
  /\ turns[c] # None
  /\ turns[c].at \in {"answered", "failed", "over"} /\ \A x \in tools : x.child # c
  /\ \E kind \in {CASE turns[c].at = "answered" -> "completed" [] turns[c].at = "failed" -> "error" [] OTHER -> "other"}
                 \cup (IF turns[c].abort THEN {"aborted"} ELSE {}) :
       log' = [log EXCEPT ![c] = Append(@, [type |-> "end", by |-> kind])]
  /\ turns' = [turns EXCEPT ![c] = None]
  /\ UNCHANGED <<open, held, store, run, team, inbox, tools, sent, stopping, told, strays, lost, upsets>>

-----------------------------------------------------------------------------
(* cancel and reconcile.                                                          *)

Confirms(d) ==
  IF records[d].phase = "settled" THEN records[d].receipt = "cancelled"
  ELSE records[d].child # None /\ turns[records[d].child] = None /\ LastEnd(d) = "aborted"

\* The child of an unsettled delegation is interrupted.
CancelRunning(d) ==
  /\ d \in Unsettled \ stopping /\ records[d].child # None
  /\ turns[records[d].child] # None
  /\ turns' = [turns EXCEPT ![records[d].child].abort = TRUE]
  /\ stopping' = stopping \cup {d}
  /\ UNCHANGED <<open, held, store, run, team, inbox, log, tools, sent, told, strays, lost, upsets>>

\* Every other cancellation, and the rest of an interrupting one, only reads.
CancelAnswers(d) ==
  /\ d \in Recorded /\ records[d].child # None
  /\ turns[records[d].child] = None \/ d \notin Unsettled
  /\ IF Confirms(d) THEN Answers(d, "native-ack") ELSE UNCHANGED told
  /\ stopping' = stopping \ {d}
  /\ UNCHANGED <<open, held, store, run, native, sent, strays, lost, upsets>>

Reconcile(d) ==
  /\ d \in Recorded
  /\ Settles(d)
  /\ UNCHANGED <<open, held, run, team, turns, inbox, log, sent, stopping, strays, lost, upsets>>

-----------------------------------------------------------------------------
(* The world.                                                                     *)

Released(d) ==
  /\ d \in held /\ held' = held \ {d}
  /\ UNCHANGED <<open, store, run, native, sent, stopping, told, strays, lost, upsets>>

\* dispose removes the hooks; executions in progress go on.
Dispose ==
  /\ Upset /\ open /\ open' = FALSE
  /\ UNCHANGED <<held, store, run, native, sent, stopping, told, strays, lost>>

Recreate ==
  /\ ~open /\ open' = TRUE
  /\ UNCHANGED <<held, store, run, native, sent, stopping, told, strays, lost, upsets>>

\* The process is lost with its turns; the store and the transcripts stay.  A request that was
\* on its way leaves no attempt in them.
Crash ==
  /\ Upset
  /\ open' = TRUE
  /\ lost' = lost \cup {d \in Recorded : turns[Target[d]] # None /\ turns[Target[d]].at = "entered"}
  /\ run' = [t \in Threads |-> Resting]
  /\ turns' = [c \in Children |-> None] /\ tools' = {} /\ stopping' = {}
  /\ UNCHANGED <<held, store, team, inbox, log, sent, told, strays>>

Next ==
  \/ \E d \in Delegations :
       Repeat(d) \/ CancelRunning(d) \/ CancelAnswers(d) \/ Reconcile(d) \/ Released(d)
  \/ \E t \in Threads :
       \/ \E d \in Delegations : Admit(t, d)
       \/ Dispatch(t) \/ Arrives(t) \/ SendReturns(t) \/ Projected(t) \/ Waited(t) \/ NativeFails(t) \/ Refused(t)
  \/ \E c \in Children :
       \/ \E m \in Delegations \cup {"user"} : TurnStarts(c, m)
       \/ PreStep(c) \/ TurnEnds(c)
       \/ \E ok \in BOOLEAN : Assistant(c, ok)
       \/ \E k \in Calls : ToolCall(c, k)
  \/ \E x \in tools : ToolResult(x) \/ \E allowed \in BOOLEAN : GateReturns(x, allowed)
  \/ Dispose \/ Recreate \/ Crash

Spec == Init /\ [][Next]_vars

-----------------------------------------------------------------------------
(* Properties.                                                                   *)

\* A delegation reaches its child at most once, however many executions of it race and
\* whatever is lost: its record is stored first.
DispatchedOnce == \A d \in Delegations : sent[d] <= 1

\* Success is reported only of a delegation whose every request and tool call went through
\* the hooks, although hooks come and go and the transcript is read much later.  The receipt
\* counts requests and attempts, so one that was lost with its process can stand in for another.
CompletedIsCovered == \A d \in strays : "completed" \in told[d] => d \in lost
=============================================================================
