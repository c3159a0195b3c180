------------------------------ MODULE Custody ------------------------------
(***************************************************************************)
(* What a Wallet promises to the threads that share it, with no bytes, no  *)
(* flag and no guards: it is open, then closing, then closed, and never    *)
(* goes back.  A call is admitted before it takes the seed, and only while *)
(* the wallet is not closed.  It then takes the seed of an open wallet     *)
(* whole, of a closing one whole or spoiled; of one closed since it was    *)
(* admitted, spoiled.  A wallet may stay closing for ever: a close() can   *)
(* be aborted.  What a call has taken it lets go of in the end.            *)
(***************************************************************************)
CONSTANTS Threads

VARIABLES phase,  \* of the wallet
          began,  \* the phase each thread's call began in, at least closing
                  \* once a close() began during it
          taken   \* what the call of each thread was let to, or works from

vars == <<phase, began, taken>>

Phase == {"open", "closing", "closed"}

Init ==
    /\ phase = "open"
    /\ began = [t \in Threads |-> "open"]
    /\ taken = [t \in Threads |-> "nothing"]

Call(t) ==
    /\ taken[t] = "nothing"
    /\ began' = [began EXCEPT ![t] = phase]
    /\ UNCHANGED <<phase, taken>>

\* What a seed is good for in each phase.
Seed(p) ==
    CASE p = "open"    -> {"whole"}
      [] p = "closing" -> {"whole", "spoiled"}
      [] p = "closed"  -> {"spoiled"}

\* The last moment at which a call can be refused.
Admit(t) ==
    /\ taken[t] = "nothing"
    /\ began[t] # "closed" /\ phase # "closed"
    /\ taken' = [taken EXCEPT ![t] = "admitted"]
    /\ UNCHANGED <<phase, began>>

Take(t) ==
    /\ taken[t] = "admitted"
    /\ \E s \in Seed(phase) : taken' = [taken EXCEPT ![t] = s]
    /\ UNCHANGED <<phase, began>>

Release(t) ==
    /\ taken[t] # "nothing"
    /\ taken' = [taken EXCEPT ![t] = "nothing"]
    /\ UNCHANGED <<phase, began>>

\* A close() begins, perhaps one of several, perhaps on a closed wallet.
BeginClose ==
    /\ phase' = IF phase = "open" THEN "closing" ELSE phase
    /\ began' = [t \in Threads |-> IF began[t] = "open" THEN "closing" ELSE began[t]]
    /\ UNCHANGED taken

EndClose ==
    /\ phase = "closing"
    /\ phase' = "closed"
    /\ UNCHANGED <<began, taken>>

Next ==
    \/ BeginClose
    \/ EndClose
    \/ \E t \in Threads : Call(t) \/ Admit(t) \/ Take(t) \/ Release(t)

Spec == Init /\ [][Next]_vars /\ \A t \in Threads : WF_vars(Release(t))
=============================================================================
