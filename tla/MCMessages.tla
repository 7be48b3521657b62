----------------------------- MODULE MCMessages -----------------------------
(***************************************************************************)
(* The letters of MessageExchange.                                         *)
(***************************************************************************)
EXTENDS MessageExchange

MCIbans == {<<"iban1">>, <<"iban2">>}
MCBics == {<<"bic">>}
MCIsins == {<<"isin1">>, <<"isin2">>}
MCWkns == {<<"514">>, <<"A0R">>}
MCThreeLetters == {<<"EUR">>, <<"USD">>}
MCDates == {<<"date1">>, <<"date2">>}
MCShortNumbers == {<<"1">>, <<"30">>}
MCAlphabetic == {<<"XETRA">>}

\* Contexts: outside a dialog and in one; a PIN and a user with separators, a
\* medium with an umlaut.
Context == [dialog |-> <<"0">>, number |-> 1, blz |-> <<"blz">>, user |-> <<"user">>,
            system |-> <<"0">>, pin |-> <<"1234">>, tan |-> NoTan, function |-> <<"942">>]
InDialog == [Context EXCEPT !.dialog = <<"d1">>, !.number = 2, !.system = <<"s1">>]

Giro == [iban |-> <<"DE", "blz", "4711">>, bic |-> <<"bic">>, national |-> <<>>]
Abroad == [iban |-> <<"AT61">>, bic |-> <<"bic">>, national |-> <<>>]
DepotAccount == [iban |-> <<>>, bic |-> <<"bic">>,
                 national |-> [number |-> <<"8030">>, blz |-> <<"blz">>]]

\* Banks: the highest versions, national ones, none listed, too old and too new
\* ones.
Newest == [listed |-> {<<"HISALS", 5>>, <<"HISALS", 7>>, <<"HIKAZS", 7>>, <<"HIWPDS", 6>>,
                       <<"HIWDUS", 4>>},
           hktan |-> 7]
National == [listed |-> {<<"HISALS", 6>>, <<"HIKAZS", 5>>, <<"HIKAZS", 8>>, <<"HIWPDS", 5>>,
                         <<"HIWDUS", 3>>, <<"HIWDUS", 5>>},
             hktan |-> 6]
Silent == [listed |-> {}, hktan |-> 5]
Outdated == [listed |-> {<<"HISALS", 4>>, <<"HIKAZS", 4>>, <<"HIKAZS", 6>>, <<"HIWPDS", 8>>},
             hktan |-> 5]

Request(ctx, orders, params) ==
    [kind |-> "request", ctx |-> ctx, orders |-> orders, params |-> params, cut |-> "no"]

\* The start of a dialog, with the versions the client has.
Opening(bpd, upd, system) ==
    <<[type |-> "HKIDN", blz |-> <<"blz">>, user |-> <<"user">>, system |-> system],
      [type |-> "HKVVB", bpd |-> bpd, upd |-> upd, product |-> <<"product">>]>>
Tan(process, for, task, medium) ==
    [type |-> "HKTAN", process |-> process, for |-> for, task |-> task, medium |-> medium]
ForOpening == Tan("4", "HKIDN", <<>>, <<>>)

Openings ==
    {Request([Context EXCEPT !.pin = pin], Opening(v[1], v[2], <<"0">>) \o rest, params) :
        pin \in {<<"1234">>, <<"3938">>, <<"wrong">>, <<"12", "+", "'", "4">>},
        v \in {<<0, 0>>, <<78, 3>>},
        rest \in {<<[type |-> "HKSYN"]>>, <<ForOpening>>}, params \in {Silent}}

Business1(account) ==
    {[type |-> "HKSAL", account |-> account],
     [type |-> "HKKAZ", account |-> account, from |-> <<"date1">>, to |-> <<"date2">>,
      touchdown |-> <<>>],
     [type |-> "HKKAZ", account |-> account, from |-> <<"date1">>, to |-> <<"date2">>,
      touchdown |-> <<"1">>],
     [type |-> "HKWPD", account |-> account, currency |-> <<"EUR">>, touchdown |-> <<>>],
     [type |-> "HKWDU", account |-> account, from |-> <<>>, to |-> <<>>, touchdown |-> <<>>],
     [type |-> "HKWDU", account |-> account, from |-> <<"date1">>, to |-> <<>>,
      touchdown |-> <<"a", ":", "b">>]}
National1(account) ==
    {[type |-> "DKWDH", account |-> account, isin |-> TRUE, security |-> <<"isin1">>,
      date |-> <<"date1">>],
     [type |-> "DKWDH", account |-> account, isin |-> FALSE, security |-> <<"A0R">>,
      date |-> <<"date1">>],
     [type |-> "DKWVB", account |-> account],
     [type |-> "DKKKU", account |-> account, card |-> <<"4", "?", "2">>, from |-> <<"date1">>,
      touchdown |-> <<>>]}
Mediums == {<<>>, <<"Handy", "@", "1">>, <<Umlaut>>, <<Euro>>}

Orders1 ==
    {Request(InDialog, <<order>>, params) :
        order \in Business1(Giro) \cup Business1(Abroad) \cup Business1(DepotAccount),
        params \in {Newest, National, Silent, Outdated}}
    \cup {Request(InDialog, <<order>>, Newest) :
            order \in National1(Giro) \cup National1(DepotAccount)}
    \cup {Request(InDialog, <<[type |-> "HKSAL", account |-> Giro],
                              Tan("4", "HKSAL", <<>>, medium)>>, params) :
            medium \in Mediums, params \in {Newest, Silent}}

\* A TAN is sent, or the app is asked; the end of the dialog; segments of the
\* caller's own.
Others ==
    {Request([InDialog EXCEPT !.tan = tan], <<Tan(process, "", <<"task">>, medium)>>, params) :
        tan \in {NoTan, <<>>, <<"123456">>, <<"1", ":", "2">>}, process \in {"2", "S"},
        medium \in {<<>>, <<"Handy">>}, params \in {Newest, Silent}}
    \cup {Request(InDialog, <<[type |-> "HKEND", dialog |-> <<"d1">>]>>, Newest),
          Request(InDialog, <<[type |-> "HKSPA"], [type |-> "HKTAB"]>>, Newest)}

Cut ==
    {[Request(InDialog, <<[type |-> "HKSAL", account |-> Giro]>>, Newest)
        EXCEPT !.cut = "may be"]}

----------------------------------------------------------------------------
\* What banks write, and what it means.

Groups(type, version, groups) == <<SegHeader(type, 3, version)>> \o groups
Line(words) == [i \in DOMAIN words |-> IF words[i] = "" THEN Empty ELSE Word(words[i])]
Answer1(segs, meant) ==
    {[kind |-> "answer", segs |-> segs, meant |-> meant, envelope |-> envelope,
      blanks |-> blanks] :
        envelope \in {"sound"}, blanks \in {TRUE, FALSE}}
Anyhow(segs, meant) ==
    {[kind |-> "answer", segs |-> segs, meant |-> meant, envelope |-> envelope,
      blanks |-> blanks] :
        envelope \in {"sound", "text", "no length", "dangling", "none"}, blanks \in {TRUE, FALSE}}

Positions7 == [i \in 1..25 |->
    CASE i = 1 -> "922" [] i = 2 -> "2" [] i = 4 -> "pushTAN" [] i = 14 -> "2"
      [] i = 22 -> "J" [] i = 23 -> "9" [] i = 24 -> "5" [] i = 25 -> "2" [] OTHER -> ""]
TanAnswers ==
    Answer1(<<Groups("HITANS", 7, <<One("1"), One("1"), One("1"), Line(Positions7)>>)>>,
            <<[fn |-> <<"922">>, process |-> <<"2">>, name |-> <<"pushTAN">>, medium |-> TRUE,
               decoupled |-> TRUE, polls |-> 9, first |-> 5, next |-> 2, hktan |-> 7]>>)
    \cup Answer1(<<Groups("HITANS", 5, <<One("1"), One("1"), One("1"),
                          Line(<<"911", "2", "smsTAN">>), Line(<<"912", "2", "">>),
                          Line(<<"913", "2", "", "chip">>)>>)>>,
            <<[fn |-> <<"911">>, process |-> <<"2">>, name |-> <<"smsTAN">>, medium |-> FALSE,
               decoupled |-> FALSE, polls |-> -1, first |-> 0, next |-> 0, hktan |-> 5],
              [fn |-> <<"913">>, process |-> <<"2">>, name |-> <<"TAN-", "913">>,
               medium |-> FALSE, decoupled |-> FALSE, polls |-> -1, first |-> 0, next |-> 0,
               hktan |-> 5]>>)
    \cup Answer1(<<Groups("HITAN", 7, <<One("4"), Nothing, One("task"), One("Bitte")>>)>>,
            [task |-> <<"task">>, challenge |-> <<"Bitte">>])
    \cup Answer1(<<Groups("HITAN", 5, <<One("4"), One("task"), One("Bitte")>>)>>,
            [task |-> <<"task">>, challenge |-> <<"Bitte">>])
    \cup Answer1(<<Groups("HITAB", 4, <<Line(<<"A", "G", "Handy">>), Line(<<"S", "G", "Alt">>),
                          Line(<<"1", "G", "App">>)>>)>>,
            <<<<"Handy">>, <<"App">>>>)

AccountAnswers ==
    Answer1(<<Groups("HISPA", 1, <<Line(<<"J", "iban1", "bic", "47", "", "280", "blz">>),
                          Line(<<"iban2", "bic", "48", "", "280", "blz">>),
                          Line(<<"N", "", "", "49", "", "280", "blz">>)>>)>>,
            <<[iban |-> <<"iban1">>, bic |-> <<"bic">>, number |-> <<"47">>, blz |-> <<"blz">>],
              [iban |-> <<"iban2">>, bic |-> <<"bic">>, number |-> <<"48">>, blz |-> <<"blz">>]>>)
    \cup Answer1(<<Groups("HIUPD", 6, <<Line(<<"47", "", "280", "blz">>), One("iban1"),
                          One("customer"), One("1"), One("EUR"), Nothing, One("Owner"),
                          One("Girokonto"), One("bic")>>)>>,
            [iban |-> <<"iban1">>, bic |-> <<"bic">>, number |-> <<"47">>, blz |-> <<"blz">>,
             owner |-> <<"Owner">>, product |-> <<"Girokonto">>, currency |-> <<"EUR">>,
             kind |-> <<"1">>])
    \cup Anyhow(<<Groups("HISAL", 7, <<One("account"), One("Giro"), One("EUR"),
                          Line(<<"D", "25", "USD", "date1">>), Line(<<"C", "5", "USD">>),
                          One("100"), One("75")>>)>>,
            [amount |-> -25, date |-> <<"date1">>, currency |-> <<"USD">>, pending |-> 5,
             credit |-> 100, available |-> 75])
    \cup Answer1(<<Groups("HIKAZ", 7, <<<<Binary(<<"a", "'", "b">>)>>, <<Binary(<<"c">>)>>>>),
                   Groups("HIKAZ", 7, <<<<Binary(<<"d">>)>>>>)>>,
            [booked |-> <<"a", "'", "b", "d">>, pending |-> <<"c">>])
    \cup Anyhow(<<Groups("HIRMS", 2, <<Line(<<"3040", "3", "mehr", "page", "", "x">>),
                          Line(<<"0020", "", "ok">>), Line(<<"9", "9">>),
                          Line(<<"3920", "", "TAN", "912", "", "922">>)>>)>>,
            <<<<[code |-> <<"3040">>, params |-> <<<<"page">>, <<"x">>>>],
                [code |-> <<"0020">>, params |-> <<>>],
                [code |-> <<"3920">>, params |-> <<<<"912">>, <<"922">>>>]>>,
              <<"page">>, <<<<"912">>, <<"922">>>>>>)

Card == [i \in 1..22 |->
    CASE i = 2 -> "date1" [] i = 3 -> "date2" [] i = 9 -> "12" [] i = 11 -> "D"
      [] i = 12 -> "shop" [] i = 20 -> "J" [] i = 22 -> "5411" [] OTHER -> ""]
CardAnswers ==
    Answer1(<<Groups("DIKKU", 2, <<One("account"), One("hash"), One("C"), Nothing, Nothing,
                          Line(Card), Line([Card EXCEPT ![2] = "soon"]),
                          Line([Card EXCEPT ![9] = "much"])>>)>>,
            <<[date |-> <<"date1">>, valuta |-> <<"date2">>, amount |-> -12,
               currency |-> <<"EUR">>, purpose |-> <<"shop">>, booked |-> TRUE,
               mcc |-> <<"5411">>]>>)

\* Statements of two securities; the second has few fields, its name
\* continues on another line.
Lined(lines) == FlattenSeq([i \in DOMAIN lines |-> lines[i] \o <<NewLine>>])
Statement535 ==
    Lined(<<<<":16R:GENL">>, <<":16S:GENL">>, <<":16R:FIN">>,
            <<":35B:", "ISIN", Blank, "isin1">>, <<"/DE/", "514">>, <<"COMST.", Blank, "ETF">>,
            <<":90B::MRKT//ACTU/", "EUR", "30">>, <<":98A::PRIC//", "date1">>,
            <<":93B::AGGR//UNIT/", "16">>, <<":19A::HOLD//", "EUR", "480">>,
            <<":70E::HOLD//", "1", "STK", "+", "812", "+", "00028", "+", "DE", "+", "date2", "+">>,
            <<"2", "28", "+", "USD", "+">>, <<":16S:FIN">>,
            <<":16R:FIN">>, <<":35B:", "ISIN", Blank, "isin2">>, <<"SECOND">>,
            <<":93B::AGGR//FAMT/", "7">>, <<":90A::MRKT//PRCT/", "97">>, <<":16S:FIN">>,
            <<":16R:FIN">>, <<":93B::AGGR//UNIT/", "1">>, <<":16S:FIN">>,
            <<":19A::HOLD//", "EUR", "999">>, <<"-">>>>)
Meant535 ==
    <<[isin |-> <<"isin1">>, wkn |-> <<"514">>, name |-> <<"COMST.", "ETF">>, quantity |-> 16,
       price |-> 30, price_currency |-> <<"EUR">>, price_date |-> <<"date1">>, value |-> 480,
       value_currency |-> <<"EUR">>, acquired |-> <<"date2">>, acquisition_price |-> 28,
       acquisition_currency |-> <<"USD">>],
      [NoHolding EXCEPT !.isin = <<"isin2">>, !.name = <<"SECOND">>, !.quantity = 7,
                        !.price = 97]>>

Detail(direction, lines) ==
    <<<<":16R:TRAN">>, <<":16R:TRANSDET">>, <<":22H::REDE//", direction>>>> \o lines
        \o <<<<":16S:TRANSDET">>, <<":16S:TRAN">>>>
Statement536 ==
    Lined(<<<<":16R:GENL">>, <<":16S:GENL">>, <<":16R:FIN">>,
            <<":35B:", "ISIN", Blank, "isin1">>, <<"/DE/", "514">>, <<"ETF">>>>
        \o Detail("RECE", <<<<":36B::PSTA//UNIT/", "16">>, <<":19A::PSTA//", "EUR", "480">>,
                            <<":98A::ESET//", "date1">>, <<":25D::MOVE//", "REVE">>,
                            <<":70E::TRDE//", "text">>>>)
        \o Detail("DELI", <<<<":36B::PSTA//FAMT/", "4">>, <<":98A::SETT//", "date2">>>>)
        \o <<<<":16S:FIN">>, <<":16R:FIN">>, <<":35B:", "ISIN", Blank, "isin2">>>>
        \o Detail("CORP", <<>>)
        \o <<<<":16S:FIN">>>>)
Meant536 ==
    <<[isin |-> <<"isin1">>, wkn |-> <<"514">>, name |-> <<"ETF">>, quantity |-> 16,
       amount |-> 480, currency |-> <<"EUR">>, direction |-> <<"RECE">>,
       effective |-> <<"date1">>, settled |-> None, reversal |-> TRUE, details |-> <<"text">>],
      [NoTransaction EXCEPT !.isin = <<"isin1">>, !.wkn = <<"514">>, !.name = <<"ETF">>,
                            !.quantity = 4, !.direction = <<"DELI">>, !.settled = <<"date2">>],
      [NoTransaction EXCEPT !.isin = <<"isin2">>, !.direction = <<"Unknown">>]>>

Statement(type, version, blob) ==
    <<Groups(type, version, <<One("account"), <<Binary(blob)>>>>)>>
DepotAnswers ==
    Answer1(Statement("HIWPD", 6, Statement535), Meant535)
    \cup Answer1(Statement("DIWDH", 1, Statement535), Meant535)
    \cup Answer1(Statement("HIWDU", 4, Statement536), Meant536)

MCLetters ==
    Openings \cup Orders1 \cup Others \cup Cut
    \cup TanAnswers \cup AccountAnswers \cup CardAnswers \cup DepotAnswers
=============================================================================
