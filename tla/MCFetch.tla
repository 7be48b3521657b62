------------------------------ MODULE MCFetch ------------------------------
(***************************************************************************)
(* Calls and banks for Fetch.                                              *)
(***************************************************************************)
EXTENDS Fetch

\* FetchOpts::all, and all five orders.
Standard == {"HKSAL", "HKKAZ", "HKWPD"}

MCCalls ==
    [variant : {"opts", "handler"}, orders : {Standard, Orders}]
    \cup {[variant |-> "fetch", orders |-> Standard],
          [variant |-> "alone", orders |-> {"HKWPD"}],
          [variant |-> "alone", orders |-> {"HKWDU"}]}
MCOpts == {[variant |-> "opts", orders |-> Standard]}

Pages(sal, kaz, wpd, kku, wdu) ==
    [op \in Orders |-> CASE op = "HKSAL" -> sal [] op = "HKKAZ" -> kaz
                         [] op = "HKWPD" -> wpd [] op = "DKKKU" -> kku
                         [] OTHER -> wdu]

\* Three pages of transactions; a bank without data in places; statements
\* that cannot be parsed.
MCData ==
    {[pages |-> Pages(1, 3, 2, 2, 2), readable |-> TRUE],
     [pages |-> Pages(0, 1, 0, 0, 3), readable |-> TRUE],
     [pages |-> Pages(1, 2, 1, 1, 0), readable |-> FALSE]}
=============================================================================
