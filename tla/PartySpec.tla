------------------------------ MODULE PartySpec ------------------------------
(***************************************************************************)
(* What the party system promises: characters form groups of bounded size, *)
(* nobody is in two of them, and a group that is dissolved is gone.        *)
(***************************************************************************)
EXTENDS Naturals, FiniteSets

CONSTANTS Players, Ids, PartySize

VARIABLES group,   \* the members of each group
          formed   \* names of groups that have been used

vars == <<group, formed>>

Alone(p) == \A id \in Ids : p \notin group[id]

Form(p, id) == /\ Alone(p) /\ id \notin formed
               /\ formed' = formed \cup {id}
               /\ group' = [group EXCEPT ![id] = {p}]

Enter(p, id) == /\ Alone(p) /\ id \in formed /\ Cardinality(group[id]) < PartySize
                /\ group' = [group EXCEPT ![id] = @ \cup {p}]
                /\ UNCHANGED formed

Depart(p, id) == /\ p \in group[id]
                 /\ group' = [group EXCEPT ![id] = @ \ {p}]
                 /\ UNCHANGED formed

Dissolve(id) == group' = [group EXCEPT ![id] = {}] /\ UNCHANGED formed

Init == group = [id \in Ids |-> {}] /\ formed = {}

Next == \E id \in Ids : \/ Dissolve(id)
                        \/ \E p \in Players : Form(p, id) \/ Enter(p, id) \/ Depart(p, id)

Spec == Init /\ [][Next]_vars
=============================================================================
