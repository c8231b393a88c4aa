--------------------------- MODULE EffectDelivery ---------------------------
(***************************************************************************)
(* What the journal promises about external effects, without the journal:   *)
(* an effect is intended once, and is claimed only from there, alone and in  *)
(* the epoch it was intended for.  Whatever else a transaction reports about  *)
(* it leaves it unknown or resolved; it can never be sent again.               *)
(***************************************************************************)
EXTENDS Integers

CONSTANTS EffectIds, Epochs, InitialEpoch

VARIABLES
  epoch,   \* the session's epoch
  phase,   \* phase[e]: what the outbox says of e
  home     \* home[e]: the epoch an effect is bound to, 0 while it is absent

vars == <<epoch, phase, home>>

Phases == {"absent", "intended", "dispatched", "unknown", "resolved"}

Reported == {"unknown", "resolved"}

Init ==
  /\ epoch = InitialEpoch
  /\ phase = [e \in EffectIds |-> "absent"]
  /\ home = [e \in EffectIds |-> 0]

\* What one transaction may do to the phase of an effect without claiming it.
Advances(before, after) ==
  \/ after = before
  \/ before = "absent" /\ after = "intended"
  \/ after \in Reported

\* One transaction: the epoch may advance, effects appear and outcomes are recorded together.
Transact ==
  /\ epoch' \in Epochs /\ epoch' >= epoch
  /\ phase' \in [EffectIds -> Phases]
  /\ home' \in [EffectIds -> Epochs \cup {0}]
  /\ \A e \in EffectIds :
       /\ Advances(phase[e], phase'[e])
       /\ phase[e] # "absent" => home'[e] = home[e]
       /\ home'[e] = 0 <=> phase'[e] = "absent"

Claim(e) ==
  /\ phase[e] = "intended"
  /\ home[e] = epoch
  /\ phase' = [phase EXCEPT ![e] = "dispatched"]
  /\ UNCHANGED <<epoch, home>>

Next == Transact \/ \E e \in EffectIds : Claim(e)

Spec == Init /\ [][Next]_vars
=============================================================================
