---------------------------- MODULE AppRegistry -----------------------------
(***************************************************************************)
(* What the commands of nxpk mean for the header of an application: each   *)
(* replaces it at once, an update keeps the permissions the user chose, an *)
(* edit keeps the release.  Of an application that two commands work at    *)
(* together, or whose header a killed command has left torn, nothing is    *)
(* known until it is at rest again.  Registry shows that the store         *)
(* implements this.                                                        *)
(***************************************************************************)
CONSTANTS App, Release, Perm, AppOf, BundlePerm, None, Unknown

VARIABLES
    header,
    chosen  \* the permissions that an install or an edit last asked for

Header == [rel : Release, perm : Perm]
vars   == <<header, chosen>>

Init ==
    /\ header = [a \in App |-> None]
    /\ chosen = [a \in App |-> None]

Becomes(a, h, perm) ==
    /\ header' = [header EXCEPT ![a] = h]
    /\ chosen' = [chosen EXCEPT ![a] = perm]

Install(r) == Becomes(AppOf[r], [rel |-> r, perm |-> BundlePerm], BundlePerm)

Update(a, r) ==
    /\ header[a] \in Header
    /\ AppOf[r] = a
    /\ r # header[a].rel
    /\ Becomes(a, [header[a] EXCEPT !.rel = r], chosen[a])

Edit(a, perm) ==
    /\ header[a] \in Header
    /\ Becomes(a, [header[a] EXCEPT !.perm = perm], perm)

Remove(a) ==
    /\ header[a] # Unknown
    /\ Becomes(a, None, chosen[a])

Confuse(a) == Becomes(a, Unknown, Unknown)

Settle(a) ==
    /\ header[a] = Unknown
    /\ \E h \in Header \cup {None}, perm \in Perm \cup {None} : Becomes(a, h, perm)

Next ==
    \/ \E r \in Release : Install(r)
    \/ \E a \in App : \/ \E r \in Release : Update(a, r)
                      \/ \E perm \in Perm : Edit(a, perm)
                      \/ Remove(a) \/ Confuse(a) \/ Settle(a)

Spec == Init /\ [][Next]_vars
=============================================================================
