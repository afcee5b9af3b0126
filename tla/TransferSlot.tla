---------------------------- MODULE TransferSlot ----------------------------
(***************************************************************************)
(* What the receiver promises its application, without requests, tasks,    *)
(* locks or channels: one offer or transfer at a time, each accepted file  *)
(* taken at most once, and a transfer that ends when its last file is      *)
(* settled or when one side cancels it.                                    *)
(***************************************************************************)
CONSTANTS Sessions, FileIds

VARIABLES
  phase,   \* what became of each session
  todo,    \* accepted files of the running transfer nobody sent yet
  busy     \* files of the running transfer being received

AInit == /\ phase = [s \in Sessions |-> "new"]
         /\ todo = {}
         /\ busy = {}

Move(s, from_, to) == phase[s] = from_ /\ phase' = [phase EXCEPT ![s] = to]

Offer(s) == /\ \A t \in Sessions : phase[t] \notin {"offered", "running"}
            /\ Move(s, "new", "offered")
            /\ UNCHANGED <<todo, busy>>

Refuse(s) == Move(s, "offered", "refused") /\ UNCHANGED <<todo, busy>>

Begin(s) == /\ Move(s, "offered", "running")
            /\ busy' = {}
            /\ \E F \in SUBSET FileIds : F # {} /\ todo' = F

Take(f) == /\ f \in todo
           /\ todo' = todo \ {f}
           /\ busy' = busy \cup {f}
           /\ UNCHANGED phase

Settle(f) == /\ f \in busy
             /\ busy \cup todo # {f}
             /\ busy' = busy \ {f}
             /\ UNCHANGED <<phase, todo>>

SettleLast(s, f) == /\ busy = {f} /\ todo = {}
                    /\ Move(s, "running", "finished")
                    /\ busy' = {} /\ todo' = {}

CancelRunning(s) == /\ Move(s, "running", "cancelled")
                    /\ busy' = {} /\ todo' = {}

\* Most steps of an implementation are stutters: TLC tries those first.
ANext == \/ UNCHANGED <<phase, todo, busy>>
         \/ \E s \in Sessions : Offer(s) \/ Refuse(s) \/ Begin(s) \/ CancelRunning(s)
         \/ \E f \in FileIds : Take(f) \/ Settle(f)
         \/ \E s \in Sessions, f \in FileIds : SettleLast(s, f)

ASpec == AInit /\ [][ANext]_<<phase, todo, busy>>
=============================================================================
