-------------------------- MODULE CommandDelivery ---------------------------
(***************************************************************************)
(* What DeviceControl.async_write promises its callers, whatever route a   *)
(* command takes (CommandRoute implements this).  A command sets one       *)
(* register of the appliance.  A call that succeeds had its command taken; *)
(* one that fails may have, and copies of either may arrive after it.      *)
(***************************************************************************)
EXTENDS Integers

CONSTANTS Callers, Keys, Values, NoCommand,
          Commands,   \* the commands that are given
          Copies      \* numbers of copies a call may leave behind

ASSUME DeliveryAssumption ==
  /\ Commands \subseteq [key : Keys, value : Values] /\ NoCommand \notin Commands
  /\ Copies \subseteq Nat /\ 0 \in Copies

VARIABLES
  dev,     \* the appliance's registers
  out,     \* the command each caller waits for, or NoCommand
  taken,   \* callers whose command the appliance has taken
  late     \* copies still on their way when their call had ended

deliveryVars == <<dev, out, taken, late>>

DeliveryTypeOK ==
  /\ dev \in [Keys -> Values]
  /\ out \in [Callers -> Commands \cup {NoCommand}] /\ taken \subseteq Callers
  /\ late \in [Commands -> Nat]

Quiet(t) == out[t] = NoCommand
Obeyed(command) == [dev EXCEPT ![command.key] = command.value]

DeliveryInit ==
  /\ dev \in [Keys -> Values]
  /\ out = [t \in Callers |-> NoCommand] /\ taken = {}
  /\ late = [c \in Commands |-> 0]

Open(t, command) ==
  /\ Quiet(t)
  /\ out' = [out EXCEPT ![t] = command] /\ taken' = taken \ {t}
  /\ UNCHANGED <<dev, late>>

\* A copy reaches the appliance; another may yet.
Take(t) ==
  /\ ~Quiet(t)
  /\ dev' = Obeyed(out[t]) /\ taken' = taken \cup {t}
  /\ UNCHANGED <<out, late>>

\* The call returns; the caller may go straight on with its next command.
Leave(t, next) ==
  /\ ~Quiet(t)
  /\ out' = [out EXCEPT ![t] = next] /\ taken' = taken \ {t}
  /\ \E n \in Copies : late' = [late EXCEPT ![out[t]] = @ + n]
  /\ UNCHANGED dev

\* How a call may end; EntityWrite says which of the two it is.
Succeed(t, next) == t \in taken /\ Leave(t, next)
Fail(t, next) == Leave(t, next)
Return(t) == \E next \in Commands \cup {NoCommand} : Succeed(t, next) \/ Fail(t, next)

\* A late copy arrives, or is lost.
Land(command) ==
  /\ late[command] > 0
  /\ late' = [late EXCEPT ![command] = @ - 1]
  /\ dev' \in {dev, Obeyed(command)}
  /\ UNCHANGED <<out, taken>>

DeliveryNext ==
  \/ \E t \in Callers : \/ \E command \in Commands : Open(t, command)
                        \/ Take(t) \/ Return(t)
  \/ \E command \in Commands : Land(command)

Delivery == DeliveryInit /\ [][DeliveryNext]_deliveryVars
=============================================================================
