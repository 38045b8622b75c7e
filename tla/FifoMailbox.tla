---------------------------- MODULE FifoMailbox ----------------------------
(***************************************************************************)
(* What an actor's mailbox promises to the code that casts to it: messages *)
(* are taken one at a time, in the order in which they were accepted, each *)
(* at most once, until the actor closes its mailbox.  Where the messages   *)
(* wait (the Go channel, the stash of a pending call) is not visible here, *)
(* but for one thing: once more than half of StashMax messages have waited *)
(* at a time, a running handler may lose a message.                        *)
(***************************************************************************)
EXTENDS Naturals, Sequences

CONSTANTS Msgs,     \* the messages that may be cast
          NoMsg,    \* the handler is not running
          StashMax  \* maxCap of the stash

VARIABLES queue,    \* accepted messages, oldest first
          cur,      \* the message being handled, or NoMsg
          open,     \* FALSE once the mailbox is closed
          outgrown  \* whether so many have waited

vars == <<queue, cur, open, outgrown>>

Init == /\ queue = <<>>
        /\ cur = NoMsg
        /\ open = TRUE
        /\ outgrown = FALSE

Accept(m) == /\ open
             /\ queue' = Append(queue, m)
             /\ UNCHANGED <<cur, open, outgrown>>

Take == /\ open
        /\ cur = NoMsg
        /\ queue # <<>>
        /\ cur' = Head(queue)
        /\ queue' = Tail(queue)
        /\ UNCHANGED <<open, outgrown>>

Release == /\ cur # NoMsg
           /\ cur' = NoMsg
           /\ UNCHANGED <<queue, open, outgrown>>

Close == /\ open
         /\ open' = FALSE
         /\ queue' = <<>>
         /\ cur' = NoMsg
         /\ outgrown' = outgrown

Outgrow == /\ 2 * Len(queue) > StashMax
           /\ outgrown' = TRUE
           /\ UNCHANGED <<queue, cur, open>>

\* q without its i-th element.
Without(q, i) == [k \in 1..(Len(q) - 1) |-> IF k < i THEN q[k] ELSE q[k + 1]]

\* A message is lost, and perhaps the handler with it.
Lose(i) == /\ open /\ outgrown /\ cur # NoMsg
           /\ queue' = Without(queue, i)
           /\ cur' \in {cur, NoMsg}
           /\ UNCHANGED <<open, outgrown>>

Next == \/ \E m \in Msgs : Accept(m)
        \/ Take
        \/ Release
        \/ Close
        \/ Outgrow
        \/ \E i \in 1..Len(queue) : Lose(i)

Spec == Init /\ [][Next]_vars
=============================================================================
