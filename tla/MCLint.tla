------------------------------- MODULE MCLint -------------------------------
(* Values of the constants of Lint that a configuration file cannot write. *)
EXTENDS Lint

Method(type, name, racy) == [symbol |-> name, type |-> type, racy |-> racy]

\* A class that is unsendable or shared, with its methods here or in another file;
\* one name twice, a function, a freelist; a file that cannot be parsed.
MCContents ==
  {[parses |-> TRUE, unsendable |-> {"A"}, freelist |-> {}, entries |-> <<Method("B", "B::m", TRUE)>>],
   [parses |-> TRUE, unsendable |-> {}, freelist |-> {"B"}, entries |-> <<Method("A", "A::m", TRUE)>>],
   [parses |-> TRUE, unsendable |-> {}, freelist |-> {"A", "B"},
    entries |-> <<Method("A", "A::m", TRUE), Method("A", "A::m", TRUE), Method("", "f", FALSE)>>],
   [parses |-> FALSE, unsendable |-> {"A"}, freelist |-> {}, entries |-> <<>>]}
=============================================================================
