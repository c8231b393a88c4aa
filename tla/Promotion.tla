------------------------------ MODULE Promotion ------------------------------
(***************************************************************************)
(* The promotion service: it moves the pointers of capability assets.  An    *)
(* asset is staged, validated and promoted in the registry; its activation   *)
(* is an effect of the host, intended and claimed in the journal before the    *)
(* host is called; the pointer follows what the host reports.                  *)
(*                                                                          *)
(* The whole state is one artifact, committed at the revision of the journal   *)
(* that was read with it.  Calls that await nothing are one action; activate   *)
(* and reconcile end an action where they await the host, and where a process   *)
(* may be lost between two commits.                                           *)
(***************************************************************************)
EXTENDS AssetRegistry, Sequences, SequencesExt, TLC

CONSTANTS
  Pointers,      \* the pointers of the session
  Session,       \* Session[p]: the host session (and scope) of pointer p
  RollbackIds,   \* ids of rollbacks callers request; a promotion is named like its asset
  Threads,       \* callers, each in a process of its own
  MaxAsked,      \* bound: a promotion or rollback is asked for below this many records
  Expirable,     \* bound: assets that may expire
  Withdrawable,  \* bound: grants that may be withdrawn
  MaxUpsets      \* bound: crashes, expiries, withdrawn grants and lapsed effects

\* What a settled receipt says of an effect.
Outcomes == {"completed", "failed", "not-executed"}

\* What the registry keeps of a revision that is registered.
Entries == [state : States, contexts : SUBSET {Session[p] : p \in Pointers}]

ASSUME PromotionAssumption ==
  /\ DOMAIN Session = Pointers /\ {MaxAsked, MaxUpsets} \subseteq Nat
  /\ None \notin Entries \cup Outcomes \cup {"unknown"} /\ "base" \notin Assets \cup {None}

VARIABLES
  opened,      \* whether the promotion state is initialized
  pointers,    \* per pointer: version, promoted asset, active asset and snapshot
  promotions,  \* the promotion records, oldest first
  outbox,      \* per promotion: state of its activation effect in the journal
  received,    \* per promotion: the settled receipt the journal holds
  fate,        \* per promotion: what the host did with the effect
  host,        \* per pointer: the snapshot the host really runs
  grants,      \* actions the permission root still authorizes
  lapsed,      \* promotions whose activation effect has lost lease, epoch or deadline
  call,        \* per thread: the call in progress
  upsets       \* crashes, expiries, withdrawals and lapses so far

projection == <<registry, opened, pointers, promotions>>
journal    == <<outbox, received>>
world      == <<expired, grants, lapsed, upsets>>

-----------------------------------------------------------------------------
(* Records and the journal.                                                  *)

PromotionIds == {promotions[i].id : i \in DOMAIN promotions}
Record(id) == promotions[CHOOSE i \in DOMAIN promotions : promotions[i].id = id]
WithRecord(id, r) == [i \in DOMAIN promotions |-> IF promotions[i].id = id THEN r ELSE promotions[i]]

\* sessionReady: no activation of this host session is unresolved, but for one's own.
SessionReady(session, own) ==
  \A id \in PromotionIds \ own :
    Record(id).status = "pending" => Session[Record(id).pointer] # session

Authorized(action) == action \in grants

\* Every commit outdates what other calls have read.
Outdated(c) == [t \in Threads |-> [c[t] EXCEPT !.fresh = FALSE]]

NewRecord(id, mode, a, p, target) ==
  [id |-> id, mode |-> mode, asset |-> a, pointer |-> p, version |-> pointers[p].version,
   previous |-> pointers[p].snapshot, target |-> target, status |-> "promoted",
   effect |-> FALSE, snapshot |-> None]

\* The function g with one more argument.
With(g, id, x) == [k \in DOMAIN g \cup {id} |-> IF k = id THEN x ELSE g[k]]

\* The pointer names what is promoted at once; what is active waits for the host.
AddRecord(r) ==
  /\ promotions' = Append(promotions, r)
  /\ pointers' = [pointers EXCEPT ![r.pointer].version = @ + 1, ![r.pointer].promoted = r.asset]
  /\ outbox' = With(outbox, r.id, "absent")
  /\ received' = With(received, r.id, None)
  /\ fate' = With(fate, r.id, "absent")

\* promote: the validated evaluation is used once, the pointer compared with the caller's.
Promote(a, p) ==
  /\ opened /\ a \notin PromotionIds /\ Len(promotions) < MaxAsked
  /\ SessionReady(Session[p], {}) /\ Authorized("promote") /\ Promotable(a)
  /\ registry' = Advance(a, "promoted")
  /\ AddRecord(NewRecord(a, "promotion", a, p, None))
  /\ call' = Outdated(call)
  /\ UNCHANGED <<opened, host, world>>

\* rollback: to a snapshot the host has confirmed on this pointer and that still qualifies.
Restorable(target, p) ==
  /\ target \in PromotionIds /\ SessionReady(Session[p], {}) /\ Authorized("activate")
  /\ Record(target).status = "active" /\ Record(target).pointer = p
  /\ Eligible(Record(target).asset)

AddRollback(id, target, p) ==
  AddRecord(NewRecord(id, "rollback", Record(target).asset, p, Record(target).snapshot))

Rollback(id, target, p) ==
  /\ opened /\ id \notin PromotionIds /\ Len(promotions) < MaxAsked /\ Restorable(target, p)
  /\ AddRollback(id, target, p)
  /\ call' = Outdated(call)
  /\ UNCHANGED <<registry, opened, host, world>>

\* revoke: qualification ends even while a host outcome is open.
Revoke(a) ==
  /\ opened /\ Registered(a) /\ State(a) # "revoked" /\ Authorized("revoke")
  /\ registry' = Advance(a, "revoked")
  /\ call' = Outdated(call)
  /\ UNCHANGED <<opened, pointers, promotions, journal, fate, host, world>>

\* Before the service is given the registry, its owner stages and validates revisions.
Prepare(a) ==
  /\ ~opened
  /\ \/ Stageable(a) /\ StageRevision(a)
     \/ Validatable(a) /\ registry' = Advance(a, "validated")
  /\ UNCHANGED <<opened, pointers, promotions, journal, fate, host, call, world>>

\* initialize: the caller's registry, and pointers at a base snapshot with no asset.
Initialize ==
  /\ ~opened /\ opened' = TRUE
  /\ UNCHANGED <<registry, pointers, promotions, journal, fate, host, call, world>>

-----------------------------------------------------------------------------
(* Calls.                                                                    *)

\* job, revision and done belong to a recovery that makes the call (module Revocation).
Idle == [at |-> "idle", id |-> None, resume |-> FALSE, eligible |-> {}, fresh |-> FALSE,
         receipt |-> None, job |-> None, revision |-> None, done |-> {}]

At(t, place) == call[t].at = place
Goto(t, place) == call' = [call EXCEPT ![t].at = place]

\* A call that ends returns to its caller, or to the recovery it is a part of.
Return(c, t, ok) ==
  IF c[t].job = None THEN [c EXCEPT ![t] = Idle]
  ELSE [c EXCEPT ![t] = [Idle EXCEPT !.at = IF ok THEN "returned" ELSE "refused", !.id = c[t].id,
                           !.job = c[t].job, !.revision = c[t].revision, !.done = c[t].done]]

Ends(t, ok) == call' = Return(call, t, ok)

\* activate, up to the observation of the host: what it read is kept over the await.
Activatable(id) ==
  LET r == Record(id)
      p == pointers[r.pointer]
  IN /\ IF r.effect THEN r.status = "pending" /\ outbox[id] = "intended" ELSE r.status = "promoted"
     /\ SessionReady(Session[r.pointer], {id})
     /\ p.promoted = r.asset /\ p.version = r.version + 1 /\ p.snapshot = r.previous

Observing(c, id) ==
  [c EXCEPT !.at = "observing", !.id = id, !.fresh = ~Record(id).effect, !.resume = Record(id).effect,
            !.eligible = EligibleNow]

Activate(t, id) ==
  /\ At(t, "idle") /\ Activatable(id)
  /\ call' = [call EXCEPT ![t] = Observing(@, id)]
  /\ UNCHANGED <<projection, journal, fate, host, world>>

\* What was read is not used again.
ToClaim(t) == [call EXCEPT ![t] = [@ EXCEPT !.at = "claim", !.resume = FALSE, !.eligible = {}]]

\* Defect: the intention is installed over whatever was committed since the state was read.
IntendsOver(t, id) ==
  /\ promotions' = WithRecord(id, [Record(id) EXCEPT !.status = "pending", !.effect = TRUE])
  /\ outbox' = [outbox EXCEPT ![id] = "intended"]
  /\ call' = Outdated(ToClaim(t))

\* The intention is committed at the revision that was read before the host was observed.
Intends(t, id) ==
  IF call[t].fresh THEN IntendsOver(t, id)
  ELSE Ends(t, FALSE) /\ UNCHANGED <<promotions, outbox>>

\* After the observation: qualification as it was read, authority and lease of now.
Admitted(t, id) ==
  /\ Record(id).asset \in call[t].eligible
  /\ WithDependencies(Record(id).asset) \cap expired = {}
  /\ Authorized("activate") /\ id \notin lapsed

Observed(t) ==
  /\ At(t, "observing")
  /\ LET id == call[t].id
     IN IF ~Admitted(t, id) THEN Ends(t, FALSE) /\ UNCHANGED <<promotions, outbox>>
        ELSE IF call[t].resume THEN call' = ToClaim(t) /\ UNCHANGED <<promotions, outbox>>
        ELSE Intends(t, id)
  /\ UNCHANGED <<registry, opened, pointers, received, fate, host, world>>

\* The host is busy, lacks a capability or does not answer.
Unready(t) ==
  /\ At(t, "observing") /\ Ends(t, FALSE)
  /\ UNCHANGED <<projection, journal, fate, host, world>>

\* dispatchEffect: claimed in the journal, in the epoch of the effect, before the host is called.
ClaimActivation(t) ==
  /\ At(t, "claim")
  /\ \/ /\ outbox[call[t].id] = "intended"
        /\ outbox' = [outbox EXCEPT ![call[t].id] = "dispatched"]
        /\ call' = [Outdated(call) EXCEPT ![t].at = "call"]
     \/ /\ outbox[call[t].id] # "intended" \/ call[t].id \in lapsed
        /\ outbox' = outbox /\ Ends(t, FALSE)
  /\ UNCHANGED <<projection, received, fate, host, world>>

CallHost(t) ==
  /\ At(t, "call")
  /\ fate' = [fate EXCEPT ![call[t].id] = IF @ = "absent" THEN "accepted" ELSE @]
  /\ Goto(t, "executing")
  /\ UNCHANGED <<projection, journal, host, world>>

\* retainReceipt: the evidence is in the journal before the pointer moves.
Retainable(id, status) == outbox[id] \in {"dispatched", "unknown"} \/ received[id] = status

Retain(t, id, status) ==
  IF Retainable(id, status)
  THEN /\ outbox' = [outbox EXCEPT ![id] = IF status = "unknown" THEN "unknown" ELSE "resolved"]
       /\ received' = [received EXCEPT ![id] = IF status = "unknown" THEN @ ELSE status]
       /\ call' = [Outdated(call) EXCEPT ![t].at = "settle", ![t].receipt = status]
  ELSE Ends(t, FALSE) /\ UNCHANGED journal

\* What the host may answer about an effect: what became of it, or that it cannot tell.
Verdicts(id) ==
  {"unknown"} \cup (CASE fate[id] = "applied" -> {"completed"} [] fate[id] = "failed" -> {"failed"}
                      [] fate[id] = "never" -> {"not-executed"} [] OTHER -> {})

\* execute returns a receipt of the effect or fails and leaves it claimed; a receipt without
\* a host invocation, as of an effect that was not executed, is not retained.
Executed(t) ==
  /\ At(t, "executing")
  /\ \/ \E status \in Verdicts(call[t].id) \ {"not-executed"} : Retain(t, call[t].id, status)
     \/ Ends(t, FALSE) /\ UNCHANGED journal
  /\ UNCHANGED <<projection, fate, host, world>>

-----------------------------------------------------------------------------
(* settle: one commit takes the outcome into record, pointer and registry.   *)

\* The activation decision of the registry; a rollback is granted no new qualification.
Qualifies(r) ==
  /\ Authorized("activate")
  /\ IF r.mode = "promotion" THEN Activates(r.asset, Session[r.pointer]) ELSE Eligible(r.asset)

\* What really happened on the host is kept even when it no longer qualifies.
Settled(r, status) ==
  IF status = "failed" THEN [r EXCEPT !.status = "failed"]
  ELSE [r EXCEPT !.status = IF Qualifies(r) THEN "active" ELSE "applied-unqualified", !.snapshot = r.asset]

SettleState(r, status) ==
  /\ promotions' = WithRecord(r.id, Settled(r, status))
  /\ pointers' = IF status = "failed" THEN pointers
                 ELSE [pointers EXCEPT ![r.pointer].active = r.asset, ![r.pointer].snapshot = r.asset]
  /\ registry' = IF status = "completed" /\ r.mode = "promotion" /\ Qualifies(r)
                 THEN RecordActive(r.asset, Session[r.pointer]) ELSE registry

\* An open outcome leaves the promotion pending; a settled one answers as it was settled.
Settle(t) ==
  /\ At(t, "settle")
  /\ LET r == Record(call[t].id)
         receipt == call[t].receipt
     IN IF r.status = "pending" /\ receipt \in {"completed", "failed"}
        THEN /\ SettleState(r, receipt)
             /\ call' = Return(Outdated(call), t, Settled(r, receipt).status # "applied-unqualified")
        ELSE Ends(t, r.status \in {"active", "failed"}) /\ UNCHANGED <<promotions, pointers, registry>>
  /\ UNCHANGED <<opened, journal, fate, host, world>>

\* reconcile: an unclaimed intention is activated again, a recorded receipt settled, and only
\* then the host asked.
Reconcilable(id) == Record(id).status = "pending" /\ (outbox[id] = "intended" => Activatable(id))

Reconciling(c, id) ==
  IF outbox[id] = "intended" THEN Observing(c, id)
  ELSE [c EXCEPT !.id = id, !.receipt = received[id],
                 !.at = IF received[id] = None THEN "asking" ELSE "settle"]

Reconcile(t, id) ==
  /\ At(t, "idle") /\ Reconcilable(id)
  /\ call' = [call EXCEPT ![t] = Reconciling(@, id)]
  /\ UNCHANGED <<projection, journal, fate, host, world>>

Asked(t) ==
  /\ At(t, "asking")
  /\ \E status \in Verdicts(call[t].id) :
       IF status \in {"completed", "failed"} THEN Retain(t, call[t].id, status)
       ELSE Ends(t, FALSE) /\ UNCHANGED journal
  /\ UNCHANGED <<projection, fate, host, world>>

-----------------------------------------------------------------------------
(* What tasks are given.                                                     *)

\* The status of the last promotion whose snapshot is the one p is at.
LastApplied(p) ==
  LET here == SelectLastInSeq(promotions, LAMBDA r : r.pointer = p /\ r.snapshot = pointers[p].snapshot)
  IN IF here = 0 THEN None ELSE promotions[here].status

\* activatedVersions: nothing while an activation is open or was applied without qualifying.
Served(session) ==
  LET used == {p \in Pointers : Session[p] = session /\ pointers[p].active # None}
  IN IF ~opened \/ ~SessionReady(session, {}) \/ \E p \in used : LastApplied(p) = "applied-unqualified"
     THEN {} ELSE {p \in used : Eligible(pointers[p].active)}

-----------------------------------------------------------------------------
(* The host and the world.                                                   *)

\* The host works on what it accepted, or makes sure an effect it never got does not run.
HostDecides(id) ==
  /\ \/ fate[id] = "accepted" /\ \E f \in {"applied", "failed"} : fate' = [fate EXCEPT ![id] = f]
     \/ fate[id] = "absent" /\ outbox[id] \in {"dispatched", "unknown"} /\ fate' = [fate EXCEPT ![id] = "never"]
  /\ host' = IF fate'[id] = "applied" THEN [host EXCEPT ![Record(id).pointer] = Record(id).asset] ELSE host
  /\ UNCHANGED <<projection, journal, call, world>>

Upset == upsets < MaxUpsets /\ upsets' = upsets + 1

\* The process of a caller is lost; the journal, the artifacts and the host remain.
Crash(t) ==
  /\ Upset /\ ~At(t, "idle")
  /\ call' = [call EXCEPT ![t] = Idle]
  /\ UNCHANGED <<projection, journal, fate, host, expired, grants, lapsed>>

\* Qualifications expire, permissions are withdrawn, leases and epochs of effects pass.
WorldChanges ==
  /\ Upset /\ opened
  /\ \/ \E a \in Expirable \ expired : expired' = expired \cup {a} /\ UNCHANGED <<grants, lapsed>>
     \/ \E g \in grants \cap Withdrawable : grants' = grants \ {g} /\ UNCHANGED <<expired, lapsed>>
     \/ \E id \in PromotionIds \ lapsed :
          /\ outbox[id] = "intended" /\ lapsed' = lapsed \cup {id} /\ UNCHANGED <<expired, grants>>
  /\ UNCHANGED <<projection, journal, fate, host, call>>

PromotionInit ==
  /\ registry = [a \in Assets |-> None] /\ opened = FALSE
  /\ pointers = [p \in Pointers |-> [version |-> 0, promoted |-> None, active |-> None, snapshot |-> "base"]]
  /\ promotions = << >> /\ outbox = << >> /\ received = << >> /\ fate = << >>
  /\ host = [p \in Pointers |-> "base"]
  /\ grants = {"promote", "activate", "revoke", "cancel"}
  /\ expired = {} /\ lapsed = {} /\ upsets = 0
  /\ call = [t \in Threads |-> Idle]

Administration ==
  \/ Initialize
  \/ \E a \in Assets : Prepare(a) \/ Revoke(a) \/ \E p \in Pointers : Promote(a, p)
  \/ \E id \in RollbackIds, target \in PromotionIds, p \in Pointers : Rollback(id, target, p)

Activation(t) ==
  \/ \E id \in PromotionIds : Activate(t, id) \/ Reconcile(t, id)
  \/ Observed(t) \/ Unready(t) \/ ClaimActivation(t) \/ CallHost(t) \/ Executed(t) \/ Settle(t) \/ Asked(t)

Environment ==
  WorldChanges \/ (\E id \in PromotionIds : HostDecides(id)) \/ (\E t \in Threads : Crash(t))
=============================================================================
