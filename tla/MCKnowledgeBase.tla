-------------------------- MODULE MCKnowledgeBase --------------------------
EXTENDS KnowledgeBase, TLC

\* A runbook and a postmortem, between them a file that is not seeded, and after them
\* one that holds nothing but its title.
File(ext, prefix, body) ==
    [ext |-> ext, prefix |-> prefix, named |-> TRUE, heading |-> TRUE, body |-> body]

MCSeedDir == <<File(".md", "runbook-", TRUE), File("another", "", TRUE),
               File(".txt", "postmortem-", TRUE), File(".md", "", FALSE)>>

Upload1(source, filled) == [from |-> 0, source |-> source, titled |-> TRUE, filled |-> filled]
MCUploads == {Upload1("playbook", TRUE), Upload1("unknown", TRUE), Upload1("", FALSE)}

\* What is uploaded has two chunks, as many as a search returns, a file of the directory
\* one: the upload can keep the runbook, which scores no more than either, from being found.
MCScore == <<<<1>>, <<0>>, <<2>>, <<0>>>> @@ (0 :> <<1, 2>>)
MCMinScore == 1

MCMaxStarts == [server |-> 1, worker |-> 1, ingest |-> 1]

=============================================================================
