----------------------------- MODULE Vocabulary -----------------------------
(***************************************************************************)
(* The tags as everybody sees them, with no transactions, keys or locks: a *)
(* list of tags is accepted as a whole, and adds those nobody has added;   *)
(* an approval makes the tags of its submission public as a whole, under   *)
(* its spelling.  What fails on the way was never there.                   *)
(***************************************************************************)
EXTENDS Naturals, Sequences

CONSTANTS Requests, Tags, Displays, Canonical, Inputs, MaxTags, Legacy, None

VARIABLES
    name,       \* of each tag, None for those nobody has added
    public,     \* the tags that are
    request,    \* the submissions with their tags, as spelled
    place       \* the tags of each place

vars == <<name, public, request, place>>

-----------------------------------------------------------------------------
TagsOf(links) == {Canonical[links[i]] : i \in DOMAIN links}

Spelled(t, links) ==
    CHOOSE d \in Displays :
        \E i \in DOMAIN links : d = links[i] /\ Canonical[d] = t

\* No tag twice.
Distinct(links) ==
    \A i, j \in DOMAIN links : Canonical[links[i]] = Canonical[links[j]] => i = j

\* The first spelling of a tag is its name until it is public.
Submit(r, links) ==
    /\ request[r].state \in {"none", "draft"}
    /\ request' = [request EXCEPT ![r] = [state |-> "draft", links |-> links]]
    /\ Len(links) <= MaxTags /\ Distinct(links)
    /\ name' = [t \in Tags |-> IF t \in TagsOf(links) /\ name[t] = None
                               THEN Spelled(t, links) ELSE name[t]]
    /\ UNCHANGED <<public, place>>

Move(r, from, to) ==
    /\ request[r].state \in from
    /\ request' = [request EXCEPT ![r].state = to]

Finalize(r) == Move(r, {"draft"}, "pending") /\ UNCHANGED <<name, public, place>>
Close(r) ==
    Move(r, {"draft", "pending"}, "closed") /\ UNCHANGED <<name, public, place>>

Approve(r) ==
    LET links == request[r].links
    IN /\ Move(r, {"pending"}, "approved")
       /\ name' = [t \in Tags |-> IF t \in TagsOf(links) \ public
                                  THEN Spelled(t, links) ELSE name[t]]
       /\ public' = public \cup TagsOf(links)
       /\ place' = [place EXCEPT ![r] = TagsOf(links)]

-----------------------------------------------------------------------------
Init ==
    /\ name = [t \in Tags |-> IF t \in TagsOf(Legacy) THEN Spelled(t, Legacy)
                                                      ELSE None]
    /\ public = TagsOf(Legacy)
    /\ request = [r \in Requests |-> [state |-> "none", links |-> <<>>]]
    /\ place = [r \in Requests |-> {}]

Next ==
    \E r \in Requests :
        \/ \E links \in Inputs : Submit(r, links)
        \/ Finalize(r) \/ Close(r) \/ Approve(r)

Spec == Init /\ [][Next]_vars
=============================================================================
