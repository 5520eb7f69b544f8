---------------------------- MODULE MCFrontDoor ----------------------------
EXTENDS FrontDoor, TLC

\* Two connections, of which b brings a header: then it names what a is known by, or an
\* empty address.  An incident, well formed or not; a webhook without labels, one whose
\* severity has spaces around it, one whose service is too long, one that is not signed,
\* and a request without the key.
MCAddresses == {"a", "b", ""}

Labels(severity, service) ==
    [l \in Label |-> CASE l = "severity" -> severity [] l = "service" -> service [] OTHER -> ""]

AlertWith(severity, service) ==
    [title |-> "", description |-> "", message |-> "word", note |-> "", firing |-> TRUE,
     common |-> Labels("", service), first |-> Labels(severity, "")]

Incident(severity) ==
    [title |-> "word", description |-> "", severity |-> severity, service |-> "word",
     environment |-> "word", alertSource |-> ""]

From(route, conn, forwarded, body) ==
    [route |-> route, conn |-> conn, forwarded |-> forwarded, key |-> TRUE, signed |-> TRUE,
     wellFormed |-> TRUE, body |-> body]

MCRequests == {From("create_incident", "a", <<>>, Incident("high")),
               From("webhook", "a", <<>>, AlertWith("", "")),
               From("webhook", "b", <<"a", "b">>, AlertWith("padded", "")),
               From("webhook", "b", <<"">>, AlertWith("low", "long")),
               [From("webhook", "b", <<>>, AlertWith("low", "")) EXCEPT !.signed = FALSE],
               [From("create_incident", "b", <<>>, Incident("word")) EXCEPT !.key = FALSE]}

Symmetry == Permutations(Slots)

MCLimit == [webhook |-> 1, create_incident |-> 2]
=============================================================================
