------------------------------ MODULE SockLife ------------------------------
(***************************************************************************)
(* What the driver layer of nsd/driver.c promises about a Sock structure:  *)
(* it is in one stage of its life at a time, it moves between the stages   *)
(* in the order below, and a connection that has been closed is never read *)
(* or queued again before the structure has been through the free list.    *)
(*                                                                         *)
(*       free -> reading -> queued -> closing -> free                      *)
(*                  ^ \___________________^ |                              *)
(*                  |_______________________|    (keep-alive)              *)
(***************************************************************************)
CONSTANT Socks

VARIABLES life,   \* the stage each Sock is in
          open    \* whether its connection to the client is open

Stages == {"free", "reading", "queued", "closing"}

Init == /\ life = [s \in Socks |-> "free"]
        /\ open = [s \in Socks |-> FALSE]

Step(s, from, to) == /\ life[s] = from
                     /\ life' = [life EXCEPT ![s] = to]

\* Whoever ends the use of a connection may close it.
MayClose(s) == \/ UNCHANGED open
               \/ open' = [open EXCEPT ![s] = FALSE]

Accept(s) == Step(s, "free", "reading") /\ open' = [open EXCEPT ![s] = TRUE]

Queue(s) == Step(s, "reading", "queued") /\ open[s] /\ UNCHANGED open

GiveBack(s) == Step(s, "queued", "closing") /\ MayClose(s)

Reuse(s) == Step(s, "closing", "reading") /\ open[s] /\ UNCHANGED open

Abort(s) == Step(s, "reading", "closing") /\ MayClose(s)

Shut(s) == Step(s, "closing", "closing") /\ open' = [open EXCEPT ![s] = FALSE]

Free(s) == Step(s, "closing", "free") /\ UNCHANGED open

\* Closing what is closed already is no step.
Next == \E s \in Socks :
            /\ life'[s] # life[s] \/ open'[s] # open[s]
            /\ \/ Accept(s) \/ Queue(s) \/ GiveBack(s) \/ Reuse(s)
               \/ Abort(s) \/ Shut(s) \/ Free(s)

Spec == Init /\ [][Next]_<<life, open>>
=============================================================================
