--------------------------- MODULE ExceptionQueue ---------------------------
(***************************************************************************)
(* What the interpreter is promised about exceptions, whatever the buffers *)
(* look like: exceptions are delivered once each, in the order they were   *)
(* accepted, and one is refused only while at least Threshold accepted     *)
(* ones are still waiting.                                                 *)
(***************************************************************************)
EXTENDS Naturals, Sequences

CONSTANTS Exc,        \* the exception numbers exc_handler builds
          Threshold   \* the backlog below which no exception may be refused

VARIABLES accepted,   \* every exception accepted so far, in order
          delivered,  \* every exception handed to the interpreter, in order
          dropped     \* how many were refused

qvars == <<accepted, delivered, dropped>>

Backlog == Len(accepted) - Len(delivered)

Init == /\ accepted = <<>>
        /\ delivered = <<>>
        /\ dropped = 0

Accept(e) == /\ accepted' = Append(accepted, e)
             /\ UNCHANGED <<delivered, dropped>>

Refuse == /\ Backlog >= Threshold
          /\ dropped' = dropped + 1
          /\ UNCHANGED <<accepted, delivered>>

Deliver == /\ Backlog > 0
           /\ delivered' = Append(delivered, accepted[Len(delivered) + 1])
           /\ UNCHANGED <<accepted, dropped>>

Next == (\E e \in Exc : Accept(e)) \/ Refuse \/ Deliver

Safety == Init /\ [][Next]_qvars

Spec == Safety /\ WF_qvars(Deliver)
=============================================================================
