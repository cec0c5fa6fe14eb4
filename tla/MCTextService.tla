---------------------------- MODULE MCTextService ----------------------------
(***************************************************************************)
(* A small desktop for TextService: two characters, lists of two on pages  *)
(* of one, two documents, and a host that may keep one edit session and    *)
(* fail one call.  The settings are the default ones and the ones that     *)
(* differ in everything the text service looks at.                         *)
(***************************************************************************)
EXTENDS TextService

MCConfigs ==
  {[fullWidth |-> FALSE, commitsOnFocusLoss |-> TRUE, escapeCommits |-> FALSE,
    backspaceCommits |-> FALSE],
   [fullWidth |-> TRUE, commitsOnFocusLoss |-> FALSE, escapeCommits |-> TRUE,
    backspaceCommits |-> TRUE]}

(* Characters and documents are told apart by nothing else than identity.  *)
MCSymmetry == Permutations(Chars) \cup Permutations(Contexts)
=============================================================================
