----------------------------- MODULE TrustPolicy -----------------------------
(***************************************************************************)
(* The trust policies of a user: nxpk trust <pattern> <identity> and nxpk  *)
(* trust --edit change ~/.config/nexpack/trust.toml, TrustConfig::load and *)
(* match_policy (nexpack-core/src/signing.rs) read it for nxpk run and     *)
(* nxpk verify.                                                            *)
(*                                                                         *)
(* The file is a sequence of sections, one per policy; of a section only   *)
(* the pattern matters here, and whether it has the field identities       *)
(* without which nothing loads.  Every command reads the file, then        *)
(* truncates it, then writes it, with no lock: commands of two terminals   *)
(* interleave at these three points.  Names and patterns are sequences of  *)
(* characters.                                                             *)
(***************************************************************************)
EXTENDS Naturals, Sequences, FiniteSets

CONSTANTS
    Terminal,
    Pattern,     \* what can be trusted
    Key,         \* the key that a pattern is, put between quotes: itself, or
                 \* another if it has an escape, or None if it breaks them
    Length,      \* bytes of a pattern
    AppId,       \* the applications that are looked up
    Default,     \* the pattern "default" of the template
    Size,        \* bytes of a section
    MaxSections, \* bound: sections in the file
    MaxFaults,   \* bound: writes that are cut short
    None

ASSUME PatternAssumption ==
    Default \in Pattern /\ \A s \in Pattern \cup AppId : s \in Seq(STRING)
ASSUME KeyAssumption == Key \in [Pattern -> Pattern \cup {None}]
ASSUME LengthAssumption ==
    Length \in [Pattern -> Nat] /\ \A p \in Pattern : Length[p] >= Len(p)
ASSUME SizeAssumption == Size \in [Pattern -> Nat \ {0}]
ASSUME BoundAssumption == MaxSections \in Nat /\ MaxFaults \in Nat

\* A section as it is read; the text of a file is a sequence of them.
Section == [pattern : Pattern \cup {None}, identities : BOOLEAN]
ASSUME NoneAssumption == None \notin Pattern \cup Seq(Section)

VARIABLES
    toml,    \* the sections of trust.toml, None if there is no file
    pc,
    text,    \* what a terminal is about to write, or has in its editor
    adding,  \* the pattern it trusts, None in an edit
    stale,   \* history: terminals whose text is of an earlier file
    told,    \* history: "Trust policy added", and no edit has taken it out
    harm,    \* history: whether writes were cut short, or overlapped
    blame,   \* history: what may have broken the file since it last loaded
    faults

history == <<stale, told, harm, blame>>
vars == <<toml, pc, text, adding, history, faults>>

\* Mutant of Policy: the key is not the one that load asks for.
WrongKey(p) == [pattern |-> p, identities |-> FALSE]
Policy(p) == [pattern |-> p, identities |-> TRUE]
Template  == [pattern |-> Default, identities |-> FALSE]
\* What is left of a section whose beginning is gone, or its end; also one
\* whose quotes do not match.
Piece     == [pattern |-> None, identities |-> FALSE]

Init ==
    /\ toml = None
    /\ pc = [t \in Terminal |-> "idle"]
    /\ text = [t \in Terminal |-> <<>>]
    /\ adding = [t \in Terminal |-> None]
    /\ stale = {} /\ told = {} /\ harm = {} /\ blame = {}
    /\ faults = 0

-----------------------------------------------------------------------------
(* Reading.                                                                *)

Sections == IF toml = None THEN <<>> ELSE toml
PatternsIn(s) == {s[i].pattern : i \in DOMAIN s} \ {None}

\* A table without identities, a table that is there twice, or a piece of
\* one, and from_str rejects the file.
Parses(s) ==
    /\ \A i \in DOMAIN s : s[i].identities
    /\ Cardinality(PatternsIn(s)) = Len(s)
Loads == Parses(Sections)
Policies == PatternsIn(Sections)

\* Mutant of WildMatches: a star stands for one character at least.
StarNeverEmpty(p, s) ==
    LET m[i \in 1 .. Len(p) + 1] == [j \in 1 .. Len(s) + 1 |->
          IF i > Len(p) THEN j > Len(s)
          ELSE IF p[i] = "*"
               THEN i = Len(p) \/ \E k \in j + 1 .. Len(s) + 1 : m[i + 1][k]
          ELSE j <= Len(s) /\ p[i] \in {s[j], "?"} /\ m[i + 1][j + 1]]
    IN  m[1][1]

\* wildmatch_recursive: m[i][j] is the call on the rests from i and j on.
WildMatches(p, s) ==
    LET m[i \in 1 .. Len(p) + 1] == [j \in 1 .. Len(s) + 1 |->
          IF i > Len(p) THEN j > Len(s)
          ELSE IF p[i] = "*"
               THEN i = Len(p) \/ \E k \in j .. Len(s) + 1 : m[i + 1][k]
          ELSE j <= Len(s) /\ p[i] \in {s[j], "?"} /\ m[i + 1][j + 1]]
    IN  m[1][1]

WildMatch == [p \in Pattern |-> {id \in AppId : WildMatches(p, id)}]

\* TrustConfig::match_policy.  Of patterns of one length the first in the
\* order of the hash map is taken, which can be any.
MatchPolicy(id) ==
    LET matching == {p \in Policies : id \in WildMatch[p]} IN
    IF id \in Policies THEN {id}
    ELSE {p \in matching : \A q \in matching : Length[q] <= Length[p]}

-----------------------------------------------------------------------------
(* Writing.                                                                *)

At(t, l, next) == pc[t] = l /\ pc' = [pc EXCEPT ![t] = next]

\* The file changes under the others.
Busy(t)     == {u \in Terminal \ {t} : pc[u] # "idle"}
Outdates(t) == stale' = (stale \ {t}) \cup Busy(t)
Overlaps(t) == harm' = IF t \in stale THEN harm \cup {"overlap"} ELSE harm

\* How the section reads that format! makes of a pattern and an identity.
\* Neither is escaped: the identity, too, may break its quotes.
Pasted(p) == {Piece} \cup IF Key[p] = None THEN {} ELSE {Policy(Key[p])}

\* Mutant of Trust: the file is not read before.
TrustAfresh(t, p) ==
    /\ At(t, "idle", "open")
    /\ Len(Sections) < MaxSections
    /\ \E s \in Pasted(p) : text' = [text EXCEPT ![t] = <<s>>]
    /\ adding' = [adding EXCEPT ![t] = p]
    /\ UNCHANGED <<toml, history, faults>>

\* nxpk trust: the section goes behind whatever the file holds.
Trust(t, p) ==
    /\ At(t, "idle", "open")
    /\ Len(Sections) < MaxSections
    /\ \E s \in Pasted(p) : text' = [text EXCEPT ![t] = Append(Sections, s)]
    /\ adding' = [adding EXCEPT ![t] = p]
    /\ UNCHANGED <<toml, history, faults>>

\* nxpk trust --edit: without a file, the template is written first.
StartEdit(t) ==
    /\ IF toml = None
       THEN At(t, "idle", "open") /\ text' = [text EXCEPT ![t] = <<Template>>]
       ELSE At(t, "idle", "launch") /\ UNCHANGED text
    /\ UNCHANGED <<toml, adding, history, faults>>

\* fs::write opens the file first, which empties it.
Open(t) ==
    /\ At(t, "open", "write")
    /\ toml' = <<>>
    /\ stale' = stale \cup Busy(t)
    /\ Overlaps(t)
    /\ UNCHANGED <<text, adding, told, blame, faults>>

Bytes(s) ==
    LET upTo[i \in 0 .. Len(s)] ==
          IF i = 0 THEN 0
          ELSE upTo[i - 1] + (IF s[i].pattern = None THEN 1
                                                     ELSE Size[s[i].pattern])
    IN  upTo[Len(s)]

\* Writing new at the start of a file that holds old leaves what old has
\* beyond it: sections that begin there, and before them what remains of one
\* that is cut in two, which for some lengths is no more than blank or a key
\* nobody reads.
Over(new, old) ==
    LET gone == {i \in DOMAIN old :
                   Bytes(SubSeq(old, 1, i - 1)) < Bytes(new)}
        kept == SubSeq(old, Cardinality(gone) + 1, Len(old))
        torn == Bytes(SubSeq(old, 1, Cardinality(gone))) > Bytes(new)
    IN  {new \o kept} \cup IF torn THEN {new \o <<Piece>> \o kept} ELSE {}

\* The text of nxpk trust is what it has read, and one section more.
Read(t)  == SubSeq(text[t], 1, Len(text[t]) - 1)
Added(t) == text[t][Len(text[t])]

\* What can break the file when a terminal writes its text.
Reasons(t) ==
    {why \in {"overlap", "template", "quotes", "twice"} :
       \/ why = "overlap" /\ t \in stale
       \/ why = "template" /\ adding[t] = None
       \/ why = "quotes" /\ adding[t] # None /\ Added(t) = Piece
       \/ /\ why = "twice" /\ adding[t] # None
          /\ Added(t).pattern \in PatternsIn(Read(t))}
Blames(reasons) ==
    blame' = IF Loads' THEN {} ELSE IF blame = {} THEN reasons ELSE blame

\* "Trust policy added" is told whatever the section reads as; told takes
\* the policies that are there under the name that was given.
Tells(t) == told' = told \cup ({adding[t]} \cap PatternsIn(text[t]))

\* Mutant of Write: the terminal forgets that it is done.
WriteAgain(t) ==
    /\ At(t, "write", IF adding[t] = None THEN "launch" ELSE "idle")
    /\ toml' \in Over(text[t], Sections)
    /\ text' = [text EXCEPT ![t] = <<>>]
    /\ Tells(t) /\ Blames(Reasons(t)) /\ Outdates(t) /\ Overlaps(t)
    /\ UNCHANGED <<adding, faults>>

Write(t) ==
    /\ At(t, "write", IF adding[t] = None THEN "launch" ELSE "idle")
    /\ toml' \in Over(text[t], Sections)
    /\ adding' = [adding EXCEPT ![t] = None]
    /\ text' = [text EXCEPT ![t] = <<>>]
    /\ Tells(t) /\ Blames(Reasons(t)) /\ Outdates(t) /\ Overlaps(t)
    /\ UNCHANGED faults

\* The disk is full, or the command is killed: some of the text is written.
CutShort(t) ==
    /\ At(t, "write", "idle")
    /\ faults < MaxFaults /\ faults' = faults + 1
    /\ \E k \in 0 .. Len(text[t]) - 1, end \in {<<>>, <<Piece>>} :
         toml' \in Over(SubSeq(text[t], 1, k) \o end, Sections)
    /\ adding' = [adding EXCEPT ![t] = None]
    /\ text' = [text EXCEPT ![t] = <<>>]
    /\ harm' = harm \cup {"cut"}
    /\ Blames({"cut"}) /\ Outdates(t)
    /\ UNCHANGED told

OpenEditor(t) ==
    /\ At(t, "launch", "editor")
    /\ text' = [text EXCEPT ![t] = Sections]
    /\ stale' = stale \ {t}
    /\ UNCHANGED <<toml, adding, told, harm, blame, faults>>

\* The user takes out one section, or writes one more, whole or not, or saves
\* the text as it is.  Whether the result parses is reported, and the file
\* stays as it is.
Without(s, i) == SubSeq(s, 1, i - 1) \o SubSeq(s, i + 1, Len(s))
Typed(s) == IF Len(s) < MaxSections
            THEN {Append(s, x) : x \in {Piece} \cup {Policy(p) : p \in Pattern}}
            ELSE {}
Save(t) ==
    /\ At(t, "editor", "idle")
    /\ toml' \in {text[t]} \cup {Without(text[t], i) : i \in DOMAIN text[t]}
                 \cup Typed(text[t])
    /\ told' = told \ (PatternsIn(text[t]) \ PatternsIn(toml'))
    /\ text' = [text EXCEPT ![t] = <<>>]
    /\ Blames({"edit"}) /\ Outdates(t) /\ Overlaps(t)
    /\ UNCHANGED <<adding, faults>>

Quit(t) ==
    /\ At(t, "editor", "idle")
    /\ text' = [text EXCEPT ![t] = <<>>]
    /\ stale' = stale \ {t}
    /\ UNCHANGED <<toml, adding, told, harm, blame, faults>>

Next ==
    \E t \in Terminal :
        \/ \E p \in Pattern : Trust(t, p)
        \/ StartEdit(t) \/ Open(t) \/ Write(t) \/ CutShort(t)
        \/ OpenEditor(t) \/ Save(t) \/ Quit(t)

Spec == Init /\ [][Next]_vars

-----------------------------------------------------------------------------
(* Properties.                                                             *)

TypeOK ==
    /\ toml # None => toml \in Seq(Section)
    /\ pc \in [Terminal -> {"idle", "open", "write", "launch", "editor"}]
    /\ text \in [Terminal -> Seq(Section)]
    /\ adding \in [Terminal -> Pattern \cup {None}]
    /\ \A t \in Terminal :
         /\ adding[t] # None => pc[t] \in {"open", "write"}
         /\ text[t] # <<>> => pc[t] \in {"open", "write", "editor"}
    /\ stale \subseteq {t \in Terminal : pc[t] # "idle"}
    /\ told \subseteq Pattern
    /\ harm \subseteq {"cut", "overlap"}
    /\ blame \subseteq {"cut", "overlap", "template", "quotes", "twice", "edit"}
    /\ faults \in 0 .. MaxFaults

\* What a pattern means: the name can be cut into pieces, one per character
\* of the pattern, any for a star, one character for a question mark, the
\* character itself for any other.
Meant(p, id) ==
    \E cut \in [0 .. Len(p) -> 0 .. Len(id)] :
        /\ cut[0] = 0 /\ cut[Len(p)] = Len(id)
        /\ \A i \in 1 .. Len(p) :
             IF p[i] = "*" THEN cut[i] >= cut[i - 1]
             ELSE /\ cut[i] = cut[i - 1] + 1
                  /\ p[i] \in {"?", id[cut[i]]}
Language == [p \in Pattern |-> {id \in AppId : Meant(p, id)}]

\* The policy of an application is one that is meant for it, whenever there is
\* one: its own, or else one of the longest, for every content that the
\* file can get (match_policy, wildmatch_recursive).
PolicyIsMeant ==
    Loads => \A id \in AppId :
        LET meant == {p \in Policies : id \in Language[p]} IN
        /\ meant # {} => MatchPolicy(id) # {}
        /\ \A p \in MatchPolicy(id) :
             /\ p \in meant
             /\ p = id \/ (id \notin meant /\ \A q \in meant : Length[p] >= Length[q])

\* When the file does not load, and with it no policy of the user, one of these
\* has happened since it last did: a write was cut short, or put an outdated
\* text into the file; an edit left it so, and reported it (trust.rs:58); the
\* template was written (trust.rs:32), or a section with broken quotes
\* (trust.rs:15), or a pattern that was there already.  Nothing else breaks it:
\* an addition leaves a file that loads as one that loads, whatever others do.
BrokenHasReason == ~Loads => blame # {}

\* A policy that was reported as added stays in the file, through all that is
\* trusted later, while no command writes a text that another has made out
\* of date; for the moment of a write it may be missing.
ToldIsKept ==
    harm = {} =>
        told \subseteq Policies \/ \E t \in Terminal : pc[t] = "write"
=============================================================================
