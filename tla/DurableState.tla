---------------------------- MODULE DurableState ----------------------------
(***************************************************************************)
(* What the store of binary states promises, with no records, tasks or     *)
(* mutex: what is durable is always a whole picture of the states wanted   *)
(* at one instant of some boot, never a mixture of two instants, and only  *)
(* a commit changes it.  A boot starts from the durable picture, or from   *)
(* nothing when it could not be read; power may be lost at any time.       *)
(***************************************************************************)
CONSTANTS Ids, States

VARIABLES
  durable,  \* the picture a reboot can read
  wanted,   \* the picture the capabilities want kept
  writing   \* the picture being written, if there is one: a set of at most one

None == "none"

Pictures == [Ids -> States \cup {None}]
Blank    == [id \in Ids |-> None]

Init ==
  /\ durable \in Pictures
  /\ wanted = Blank
  /\ writing = {}

Start ==
  /\ wanted = Blank
  /\ writing = {}
  /\ wanted' = durable
  /\ UNCHANGED <<durable, writing>>

Want(id, v) ==
  /\ wanted' = [wanted EXCEPT ![id] = v]
  /\ UNCHANGED <<durable, writing>>

Take ==
  /\ writing = {}
  /\ writing' = {wanted}
  /\ UNCHANGED <<durable, wanted>>

Commit ==
  /\ writing # {}
  /\ durable' \in writing
  /\ writing' = {}
  /\ UNCHANGED wanted

Abandon ==
  /\ writing # {}
  /\ writing' = {}
  /\ UNCHANGED <<durable, wanted>>

PowerLoss ==
  /\ wanted' = Blank
  /\ writing' = {}
  /\ UNCHANGED durable

Next ==
  \/ Start
  \/ \E id \in Ids, v \in States : Want(id, v)
  \/ Take
  \/ Commit
  \/ Abandon
  \/ PowerLoss

Spec == Init /\ [][Next]_<<durable, wanted, writing>>
=============================================================================
