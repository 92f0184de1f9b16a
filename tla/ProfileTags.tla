---------------------------- MODULE ProfileTags ----------------------------
(***************************************************************************)
(* What icclib promises of the tags of a profile: a profile is a set of    *)
(* groups, each a content with the names it is found under.  Filling in a  *)
(* tag is seen under every name of its group and under no other; a file    *)
(* written holds the groups of the profile, and reading it gives them back.*)
(***************************************************************************)
CONSTANTS Names, Contents

VARIABLES open,      \* there is an icc object
          profile,   \* its groups
          saved      \* the file: whether it can be read, and its groups
vars == <<open, profile, saved>>

Group(names, content) == [names |-> names, content |-> content]

Groups == [names : (SUBSET Names) \ {{}}, content : Contents]

\* No name is in two groups.
Disjoint(gs) == \A g, h \in gs : g.names \cap h.names # {} => g = h

Init == /\ ~open
        /\ profile = {}
        /\ saved \in [ok : BOOLEAN, groups : {gs \in SUBSET Groups : Disjoint(gs)}]

Open == /\ ~open
        /\ open'
        /\ \/ profile' = {}
           \/ saved.ok /\ profile' = saved.groups
        /\ UNCHANGED saved

Close == open /\ ~open' /\ profile' = {} /\ UNCHANGED saved

\* The groups change from gs to hs.
Edit(gs, hs) == /\ open /\ gs \subseteq profile
                /\ profile' = (profile \ gs) \cup hs
                /\ UNCHANGED <<open, saved>>

\* names without those of an empty group
Kept(g) == IF g.names = {} THEN {} ELSE {g}

Add(n, c) == /\ \A g \in profile : n \notin g.names
             /\ Edit({}, {Group({n}, c)})

Fill(g, c) == Edit({g}, {Group(g.names, c)})

Link(g, n) == /\ \A h \in profile : n \notin h.names
              /\ Edit({g}, {Group(g.names \cup {n}, g.content)})

Delete(g, n) == n \in g.names /\ Edit({g}, Kept(Group(g.names \ {n}, g.content)))

Rename(g, n, m) == /\ n \in g.names
                   /\ \A h \in profile : m \notin h.names
                   /\ Edit({g}, {Group((g.names \ {n}) \cup {m}, g.content)})

\* Writing the file, which may leave an unreadable one.
Save == /\ open /\ UNCHANGED <<open, profile>>
        /\ \/ saved' = [ok |-> TRUE, groups |-> profile]
           \/ saved' = [ok |-> FALSE, groups |-> {}]

Next == \/ Open \/ Close \/ Save
        \/ \E n \in Names, c \in Contents : Add(n, c)
        \/ \E g \in profile :
              \/ \E c \in Contents : Fill(g, c)
              \/ \E n \in Names : Link(g, n) \/ Delete(g, n)
              \/ \E n, m \in Names : Rename(g, n, m)

Spec == Init /\ [][Next]_vars
=============================================================================
