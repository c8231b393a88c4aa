------------------------------ MODULE MCRound -------------------------------
(***************************************************************************)
(* The gates an effect passes before its host is called and, beside them, the  *)
(* session under the fairness of its callers and the judgement of what an        *)
(* attempt left behind.  They share no state; the initial state chooses one of    *)
(* the three and the others stay at rest.                                          *)
(***************************************************************************)
EXTENDS Admission, MCEvaluation

-----------------------------------------------------------------------------
(* The admission: a task that needs a tool gate, would like a board and whose evolution  *)
(* needs a meter; a run that reads a brief, a child that asks a teammate, and a stop.        *)

Scope(writes, domain) ==
  [workspace |-> "repo", reads |-> {"src"}, writes |-> writes, artifacts |-> {}, domain |-> domain]

Ask(node, writes, caps) == [node |-> node, scope |-> Scope(writes, "same-user"), caps |-> caps]

MCRoot ==
  [scope |-> Scope({"src", "doc"}, "same-user"), caps |-> {"edit", "test"}, nodes |-> {"a", "b"},
   depth |-> 2, expires |-> 2, epoch |-> 0]

Needs(cap, mode, coverage, alternatives) ==
  [cap |-> cap, mode |-> mode, coverage |-> coverage, kinds |-> {"probe"}, alternatives |-> alternatives]

Option(id, leads) ==
  [id |-> id, replaces |-> "board", tradeoff |-> TRUE, approvable |-> TRUE,
   requirements |-> {Needs("gate", "hard", {}, leads)}]

\* The second alternative leads back to itself.
MCTask ==
  [protocol |-> 1, scope |-> Scope({"src"}, "same-user"),
   guarantees |-> <<Needs("gate", "hard", {"tools"}, {}), Needs("board", "degradable", {}, {1, 2}),
                    Needs("meter", "degradable", {}, {})>>,
   degradations |-> {Option(1, {}), Option(2, {2})}]

Seen(status, version) ==
  [status |-> status, version |-> version, model |-> TRUE, coverage |-> {"tools"}, kinds |-> {"probe"}]

Manifest(gate, board, meter) ==
  [protocols |-> {1}, version |-> 1, caps |-> [gate |-> gate, board |-> board, meter |-> meter]]

Good == Seen("verified", 1)
Full == Manifest(Good, Good, Good)

MCManifests ==
  {Full, Manifest(Good, Seen("absent", 1), Seen("verified", 0))}

MCPolicies == {[mode |-> "optional", caps |-> {"meter"}, domain |-> "same-user", metered |-> TRUE]}

Op(kind, durable, targets, inputs, request, level) ==
  [kind |-> kind, durable |-> durable, targets |-> targets, inputs |-> inputs, request |-> request, level |-> level]

MCOperations ==
  [run  |-> Op("host.agent", FALSE, {}, {"brief"}, Ask("a", {"src"}, {"edit"}), 1),
   ask  |-> Op("host.delegate", TRUE, {}, {}, Ask("b", {}, {}), 2),
   look |-> Op("host.reconcile", FALSE, {"run"}, {}, Ask("a", {}, {}), 1),
   stop |-> Op("host.cancel", FALSE, {"run"}, {}, Ask("a", {}, {}), 1)]

MCInputs ==
  [brief |-> [id |-> "brief", digest |-> "text", credential |-> FALSE, producer |-> "kernel", verified |-> TRUE,
              schema |-> 1, binding |-> None, visibility |-> "internal", partition |-> "train", expires |-> 2]]

MCDelegated ==
  [id |-> "g", scope |-> Scope({"src"}, "same-user"), issuedEpoch |-> 1, expires |-> 2,
   revoked |-> FALSE, revocationEpoch |-> 0]

MCScripts ==
  {[outcome |-> "completed", evidence |-> None, cancels |-> TRUE],
   [outcome |-> "unknown", evidence |-> "completed", cancels |-> FALSE]}

MCRequests == {Ask("b", {"src"}, {"edit"}), Ask("b", {}, {"edit"})}
MCExpectation == [schema |-> 1, binding |-> None]
MCMatrices == {DshCapabilities}

ASSUME GatesAssumption == ValidConstants

-----------------------------------------------------------------------------
(* The three of them.                                                             *)

CONSTANTS t1, t2, na, nb, nc

VARIABLES
  machine,
  s, graph, threads, running, host, expired

Life == INSTANCE MCSession WITH
  RequestIds <- {na} \X {1} \X {1}, Micros <- {1, 2}, NodeOrder <- <<na>>,
  Graphs <- {[edges |-> {}, terminal |-> {na}]}, Writers <- {na},
  MaxAttempts <- 1, MaxConcurrentAgents <- 2, RequireCompleteUsage <- TRUE,
  PoolPolicy <- [category |-> "development", authorized |-> FALSE, priced |-> TRUE, cap |-> 8,
                 reservePerRequest |-> 2, maxRequests |-> 4, maxConcurrent |-> 4],
  UsageRows <- {[complete |-> TRUE, micros |-> 1]}, Threads <- {t1},
  Commands <- {"step", "webhook", "reconcile", "cancel", "crash"}, MaxEffects <- 2, MaxEpoch <- 1

living == <<s, graph, threads, running, host, expired>>

RoundInit ==
  /\ machine \in {"session", "admission", "evaluation"}
  /\ Init
  /\ Life!Init
  /\ EvaluationInit
  /\ machine # "admission" => manifest = Full /\ script = (CHOOSE c \in Scripts : TRUE)

RoundNext ==
  \/ machine = "admission" /\ Next /\ UNCHANGED <<machine, living, evaluationVars>>
  \/ machine = "session" /\ Life!Next /\ UNCHANGED <<machine, vars, evaluationVars>>
  \/ machine = "evaluation" /\ EvaluationNext /\ UNCHANGED <<machine, vars, living>>

\* A session at rest has no action that fairness is asked of.
RoundSpec == RoundInit /\ [][RoundNext]_<<machine, vars, living, evaluationVars>> /\ Life!Fairness

\* Module Session: what is in doubt is resolved.
UnknownIsReconciled == Life!UnknownIsReconciled
=============================================================================
