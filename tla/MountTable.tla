----------------------------- MODULE MountTable -----------------------------
(***************************************************************************)
(* What the mount table of nexpackd promises to those who run              *)
(* applications, without threads, mutex, counts and mounts: an application *)
(* stays in the table as long as somebody uses it, and whoever gives it    *)
(* back is the one who had it.  MountDaemon implements this.               *)
(***************************************************************************)
EXTENDS Naturals

CONSTANTS Client, App

VARIABLES
    users,   \* per application, who was told "mounted" and has not given it back
    silent,  \* per application, users that ended without giving it back
    kept,    \* the applications of the table
    doubted  \* those somebody gave back who had it from an earlier daemon

vars == <<users, silent, kept, doubted>>

Nobody  == [a \in App |-> {}]
NoCount == [a \in App |-> 0]

Init ==
    /\ users = Nobody /\ silent = NoCount
    /\ kept = {} /\ doubted = {}

Acquire(c, a) ==
    /\ \A b \in App : c \notin users[b]
    /\ users' = [users EXCEPT ![a] = @ \cup {c}]
    /\ kept' = kept \cup {a}
    /\ UNCHANGED <<silent, doubted>>

GiveBack(c, a) ==
    /\ c \in users[a]
    /\ users' = [users EXCEPT ![a] = @ \ {c}]
    /\ UNCHANGED <<silent, kept, doubted>>

EndSilently(c, a) ==
    /\ c \in users[a]
    /\ users' = [users EXCEPT ![a] = @ \ {c}]
    /\ silent' = [silent EXCEPT ![a] = @ + 1]
    /\ UNCHANGED <<kept, doubted>>

\* Who ended silently is a user for ever, as far as the table can know.
Unused(a) == users[a] = {} /\ silent[a] = 0

Reclaim(a) ==
    /\ a \in kept
    /\ Unused(a) \/ a \in doubted
    /\ kept' = kept \ {a}
    /\ UNCHANGED <<users, silent, doubted>>

\* The request to give an application back does not say who sends it.
GiveBackOld(a) ==
    /\ a \in kept
    /\ doubted' = doubted \cup {a}
    /\ UNCHANGED <<users, silent, kept>>

\* Another daemon, which knows of nobody.
StartAfresh ==
    /\ users' = Nobody /\ silent' = NoCount
    /\ kept' = {} /\ doubted' = {}

Next ==
    \/ \E a \in App : \/ \E c \in Client : \/ Acquire(c, a) \/ GiveBack(c, a)
                                          \/ EndSilently(c, a)
                      \/ Reclaim(a) \/ GiveBackOld(a)
    \/ StartAfresh

Spec == Init /\ [][Next]_vars
=============================================================================
