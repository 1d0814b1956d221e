---------------------------- MODULE ModelService -----------------------------
(***************************************************************************)
(* What the two tiers that ask a model share (aiscan/llm.py and the cache  *)
(* files of both): a file of raw replies by the hash of the question.      *)
(***************************************************************************)
CONSTANT Malformed      \* a reply that is not of the schema asked for

\* A file is a set of entries; a file that does not read is empty.
Hits(file, question) == {e \in file : e.key = question}

Kept(question, reply) == [key |-> question, reply |-> reply]

\* Every reply is kept with the question it was given to.  (A valid reply holds the
\* question as a ghost.)
RepliesFit(file) == \A e \in file : e.reply # Malformed => e.reply.of = e.key
=============================================================================
