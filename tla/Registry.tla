------------------------------ MODULE Registry -------------------------------
(***************************************************************************)
(* The store of LayerStore, seen as the registry of applications that      *)
(* AppRegistry specifies.  To LayerStore this adds a history: the          *)
(* applications that commands are at work on together, or whose header     *)
(* was torn by a command that was killed.                                  *)
(***************************************************************************)
EXTENDS LayerStore

CONSTANT Unknown

ASSUME UnknownAssumption == Unknown \notin Header \cup {None, Torn}

VARIABLE mixed

\* Commands that read or write the directory of an application.
WorksOn(p, a) == job[p].app = a /\ job[p].op # "mount"
Workers(a)    == {p \in Proc : WorksOn(p, a)}
Meet(a)       == \E p, q \in Workers(a) : p # q

Mixes ==
    mixed' = {a \in App : \/ Meet(a)'
                          \/ a \in cutMeta'
                          \/ a \in mixed /\ Workers(a)' # {}}

MixInit == Init /\ mixed = {}
MixNext == Next /\ Mixes
MixSpec == MixInit /\ [][MixNext]_<<vars, mixed>>

\* The header of an application is replaced when its file is opened: who
\* writes it then is the only one who can tell.
Writer(a)  == CHOOSE p \in Proc : WritesMeta(p, a)
Carried(p) == [rel |-> job[p].rel, perm |-> job[p].perm]
Asks(p)    == job[p].op \in {"install", "edit"}

Shown(a) ==
    IF a \in mixed THEN Unknown
    ELSE IF meta[a] = Torn THEN Carried(Writer(a)) ELSE meta[a]
Chosen(a) ==
    IF a \in mixed THEN Unknown
    ELSE IF meta[a] = Torn /\ Asks(Writer(a)) THEN job[Writer(a)].perm ELSE asked[a]

Reg == INSTANCE AppRegistry WITH header <- [a \in App |-> Shown(a)],
                                 chosen <- [a \in App |-> Chosen(a)]

\* One command at a time on an application, beside any commands on others and
\* any collections, and the header changes as the command says: an update does
\* not lose permissions, an edit does not take back an update, and a header is
\* torn only by a kill (register_app, check_and_apply_updates,
\* edit_permissions, remove_app).
ImplementsRegistry == Reg!Spec
=============================================================================
