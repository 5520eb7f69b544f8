--------------------------- MODULE KnowledgeIndex ---------------------------
(***************************************************************************)
(* What the knowledge base promises the investigations that read it: a     *)
(* document is listed, then searchable with all its text at once, and once *)
(* removed neither it nor any part of it is ever found again.              *)
(* KnowledgeBase implements it.                                            *)
(***************************************************************************)
CONSTANT Documents   \* ids of documents

VARIABLES listed, searchable, removed

vars == <<listed, searchable, removed>>

Init == listed = {} /\ searchable = {} /\ removed = {}

Add(d) == /\ d \notin listed \cup removed
          /\ listed' = listed \cup {d}
          /\ UNCHANGED <<searchable, removed>>

Index(d) == /\ d \in listed
            /\ searchable' = searchable \cup {d}
            /\ UNCHANGED <<listed, removed>>

Remove(d) == /\ d \in listed
             /\ listed' = listed \ {d}
             /\ searchable' = searchable \ {d}
             /\ removed' = removed \cup {d}

Next == \E d \in Documents : Add(d) \/ Index(d) \/ Remove(d)

Spec == Init /\ [][Next]_vars

=============================================================================
