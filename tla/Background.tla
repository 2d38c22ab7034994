----------------------------- MODULE Background -----------------------------
(***************************************************************************)
(* The threads that work behind the connection threads: writer threads,    *)
(* the log writer and the socket callback thread.  They share no state.    *)
(***************************************************************************)
EXTENDS Writer, SockCallback

BackgroundInit == WriterInit /\ AsyncInit /\ ScInit

BackgroundNext ==
    \/ WriterNext /\ UNCHANGED <<asyncVars, sockcbVars>>
    \/ AsyncNext /\ UNCHANGED <<writerVars, sockcbVars>>
    \/ ScNext /\ UNCHANGED <<writerVars, asyncVars>>

BackgroundSpec == BackgroundInit /\ [][BackgroundNext]_<<writerVars, asyncVars, sockcbVars>>

\* What these threads keep in every interleaving: a stream's link to its
\* writer job, the wake-ups that are on their way, and the last registration
\* of a socket.
BackgroundInv == WriterLinkKept /\ AsyncTriggerComing /\ ScTriggerComing /\ ScRegistered
=============================================================================
