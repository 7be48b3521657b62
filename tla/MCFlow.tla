------------------------------- MODULE MCFlow -------------------------------
(***************************************************************************)
(* Flow against the bank of MCFinTSDialog.                                 *)
(***************************************************************************)
EXTENDS Flow, TLC

MCBpd ==
    [version |-> 42,
     methods |-> <<[fn |-> 912, decoupled |-> TRUE]>>,
     pins    |-> [NoRules EXCEPT !["HKSAL"] = "pin"],
     params  |-> {<<"HISALS", 7>>}]
MCUpd == [version |-> 3, read |-> 0, accounts |-> <<"giro">>]

\* What code 3920 lists: one function, or nothing.
MCAllowed == {<<912>>, <<>>}

MCSymmetry == Permutations(DialogIds)
=============================================================================
