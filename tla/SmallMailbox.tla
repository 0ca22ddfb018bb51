----------------------------- MODULE SmallMailbox -----------------------------
(***************************************************************************)
(* One SmallMailbox object (src/src/Mailbox.h, src/src/Mailbox.cpp) as a   *)
(* record, and its methods as operators on that record.  The state         *)
(* machines that own mailboxes apply these operators.                      *)
(*                                                                         *)
(* The retry timer is kept as the one bit hasPendingChanges() reads:       *)
(* waiting means that reset() was called less than a period ago.  trigger()*)
(* (lastFired = 0) and the passing of time clear it.  ready() also needs   *)
(* the node's clock to be beyond the first period after power-on, which is *)
(* the argument warm below.                                                *)
(***************************************************************************)
CONSTANTS Value,  \* what the memory of a mailbox can hold
          Zero    \* what memset( contents, 0, mailboxSize ) leaves there

ASSUME ZeroAssumption == Zero \in Value

Command == {"SEND_VALUE", "ACK_VALUE", "SEND_VALUE_CHANGE"}

Mailbox == [contents : Value, synchronized : BOOLEAN, callerChanged : BOOLEAN,
            changeTrigger : BOOLEAN, waiting : BOOLEAN]

NewMailbox == [contents |-> Zero, synchronized |-> TRUE, callerChanged |-> FALSE,
               changeTrigger |-> FALSE, waiting |-> FALSE]

(* Interval::ready() on the retry timer of mailbox m.                      *)
TimerReady(m, warm) == warm /\ ~m.waiting

HasPendingChanges(m, warm) == TimerReady(m, warm) /\ ~m.synchronized

(* setLong(v); a bare trigger() is setLong of the present contents.        *)
SetLong(m, v) == [m EXCEPT !.contents = v, !.synchronized = FALSE,
                           !.callerChanged = TRUE, !.changeTrigger = TRUE,
                           !.waiting = FALSE]

ResetPushes(m) == [m EXCEPT !.synchronized = FALSE, !.changeTrigger = FALSE, !.waiting = FALSE]
                  \* mutant: the reset does not ask who set the value
BusReset(m) == [m EXCEPT !.synchronized = ~m.callerChanged,
                         !.changeTrigger = FALSE, !.waiting = FALSE]

(* generateMessage(): the command it writes, and the object afterwards.    *)
GeneratedCommand(m) == IF m.changeTrigger /\ m.callerChanged
                       THEN "SEND_VALUE_CHANGE" ELSE "SEND_VALUE"

GenerateForgets(m) == [m EXCEPT !.waiting = TRUE, !.synchronized = TRUE]
                      \* mutant: sending counts as being acknowledged
GenerateClearsTrigger(m) == [m EXCEPT !.waiting = TRUE, !.changeTrigger = FALSE]
                      \* mutant: only the first send is an event
AfterGenerate(m) == [m EXCEPT !.waiting = TRUE]

-------------------------------------------------------------------------------
(* handleMessage() in its three cases.  msg is any record with the fields  *)
(* command and value; role is the role of the node that owns the mailbox.  *)

IsValue(msg) == msg.command \in {"SEND_VALUE", "SEND_VALUE_CHANGE"}

(* The contention case that only a master decides in its own favour.       *)
NeverContended(role, m) == FALSE  \* mutant: the master accepts like a device
Contended(role, m) == m.callerChanged /\ role = "master"

DisregardKeepsState(m) == m  \* mutant: the master does not push again
AfterDisregard(m) == [m EXCEPT !.synchronized = FALSE]

AfterAccept(m, v) == [m EXCEPT !.contents = v, !.synchronized = TRUE,
                               !.callerChanged = FALSE, !.changeTrigger = FALSE]

(* The wasTriggered argument the two user callbacks are given.             *)
WasTriggered(m, msg) == m.changeTrigger \/ msg.command = "SEND_VALUE_CHANGE"

AckAny(m, v) == [m EXCEPT !.synchronized = TRUE, !.changeTrigger = FALSE]
                \* mutant: the acknowledged value is not compared
AckKeepsTrigger(m, v) == [m EXCEPT !.synchronized = m.synchronized \/ v = m.contents]
                \* mutant: the flag outlives the acknowledgement
AckAdopts(m, v) == [m EXCEPT !.contents = v, !.synchronized = TRUE, !.changeTrigger = FALSE]
                \* mutant: the acknowledged value is stored
AfterAck(m, v) == [m EXCEPT !.synchronized = m.synchronized \/ v = m.contents,
                            !.changeTrigger = FALSE]
===============================================================================
