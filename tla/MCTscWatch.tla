----------------------------- MODULE MCTscWatch -----------------------------
(* Three files and two checkers, so that two files share one.  The second   *)
(* is a declaration file, the third is in JavaScript.  The config files     *)
(* differ in what is written and ask for one thread or several.             *)
EXTENDS TscWatch

MCFile == 1 .. 3
MCParsed ==
    {[singleThreaded |-> FALSE, verbatimModuleSyntax |-> FALSE, outputs |-> {"js", "dts"}],
     [singleThreaded |-> TRUE, verbatimModuleSyntax |-> TRUE, outputs |-> {"js"}],
     [singleThreaded |-> TRUE, verbatimModuleSyntax |-> FALSE, outputs |-> {"dts"}]}
=============================================================================
