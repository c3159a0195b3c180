-------------------------------- MODULE Vault --------------------------------
(***************************************************************************)
(* What a keystore file promises, with no envelope, no bytes and no file   *)
(* system: the file holds one secret under one password, or nothing that   *)
(* can be used.  A save makes it unusable until it ends, and a save that   *)
(* nothing disturbed leaves exactly its item.  Unlocking what was opened   *)
(* gives the secret for its password and an error for any other.  What a   *)
(* power loss leaves is what was last written back, unusable at worst.     *)
(***************************************************************************)
CONSTANTS Savers, Readers, Passwords, Secrets

VARIABLES content,   \* what the file holds
          durable,   \* what it would hold after a power loss
          pending,   \* what each process inside save() is saving
          disturbed, \* saves overlap
          written,   \* items written whole since the last save began
          opened,    \* what each reader last read
          answer     \* the password it last tried and what unlock() gave for it

vars == <<content, durable, pending, disturbed, written, opened, answer>>

\* An item that was stored so that no password opens it is nobody's, too.
Item     == [password : Passwords \cup {"nobody's"}, secret : Secrets]
Unusable == [password |-> "nobody's"]
Nobody   == [p \in Savers |-> Unusable]

\* What a password gets: the secret, or nothing.
Given(pw, secret) == [password |-> pw, secret |-> secret]
Refused(pw)       == Given(pw, <<>>)

Init ==
    /\ content = Unusable
    /\ durable = Unusable
    /\ pending = Nobody
    /\ disturbed = FALSE
    /\ written = {}
    /\ opened = [p \in Readers |-> Unusable]
    /\ answer = [p \in Readers |-> Refused("")]

BeginSave(p, item) ==
    /\ pending[p] = Unusable
    /\ written' = {}
    /\ content' = Unusable
    /\ pending' = [pending EXCEPT ![p] = item]
    /\ disturbed' = (pending # Nobody)
    /\ UNCHANGED <<durable, opened, answer>>

EndSave(p) ==
    /\ pending[p] # Unusable
    /\ pending' = [pending EXCEPT ![p] = Unusable]
    /\ disturbed' = (disturbed /\ pending' # Nobody)
    /\ UNCHANGED <<durable, opened, answer>>

\* Saves that overlap can spoil one another's items, or put a spoilt one
\* together again, but never leave anything that was not written whole.
CompleteSave(p) ==
    /\ EndSave(p)
    /\ written' = written \cup {pending[p]}
    /\ content' \in IF disturbed THEN written' \cup {Unusable} ELSE {pending[p]}

\* The save stops half-way: nothing of its item can be used.
AbandonSave(p) ==
    /\ EndSave(p)
    /\ UNCHANGED written
    /\ content' \in IF disturbed THEN written \cup {Unusable} ELSE {Unusable}

Damage ==
    /\ content' = Unusable
    /\ durable' = Unusable
    /\ UNCHANGED <<pending, disturbed, written, opened, answer>>

Flush ==
    /\ durable' \in {content, Unusable}
    /\ UNCHANGED <<content, pending, disturbed, written, opened, answer>>

PowerLoss ==
    /\ content' = durable
    /\ pending' = Nobody /\ disturbed' = FALSE /\ written' = {}
    /\ opened' = [p \in Readers |-> Unusable]
    /\ answer' = [p \in Readers |-> Refused("")]
    /\ UNCHANGED durable

Open(p) ==
    /\ opened' = [opened EXCEPT ![p] = content]
    /\ answer' = [answer EXCEPT ![p] = Refused("")]
    /\ UNCHANGED <<content, durable, pending, disturbed, written>>

Unlock(p, pw) ==
    /\ answer' = [answer EXCEPT ![p] =
                    IF opened[p].password = pw THEN Given(pw, opened[p].secret)
                                               ELSE Refused(pw)]
    /\ UNCHANGED <<content, durable, pending, disturbed, written, opened>>

Next ==
    \/ Damage \/ Flush \/ PowerLoss
    \/ \E p \in Savers :
          \/ \E item \in Item : BeginSave(p, item)
          \/ CompleteSave(p)
          \/ AbandonSave(p)
    \/ \E p \in Readers :
          \/ Open(p)
          \/ \E pw \in Passwords \cup {""} : Unlock(p, pw)

Spec == Init /\ [][Next]_vars
=============================================================================
