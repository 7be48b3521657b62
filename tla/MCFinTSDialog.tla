--------------------------- MODULE MCFinTSDialog ---------------------------
(***************************************************************************)
(* A bank with two TAN methods for FinTSDialog: 912 lets the user confirm  *)
(* in an app (decoupled), 921 asks for a TAN; 999 is the PIN alone.        *)
(***************************************************************************)
EXTENDS FinTSDialogInv, TLC

MCBpd ==
    [version |-> 42,
     methods |-> <<[fn |-> 921, decoupled |-> FALSE],
                   [fn |-> 912, decoupled |-> TRUE]>>,
     pins    |-> [NoRules EXCEPT !["HKSAL"] = "pin"],
     params  |-> {<<"HISALS", 5>>, <<"HISALS", 7>>, <<"HIKAZS", 6>>}]

\* parse_hiupa_version reads the element after the version, the usage
\* indicator: 0.
MCUpd == [version |-> 3, read |-> 0, accounts |-> <<"giro">>]

\* What code 3920 lists: every function; now these, now those; nothing.
MCAllowed == {<<912, 921, 999>>, <<>>}
MCAllowedVaries == {<<921, 912>>, <<999, 921>>, <<>>}

MCSymmetry == Permutations(DialogIds) \cup Permutations(SystemIds)
=============================================================================
