------------------------------- MODULE MCCards -------------------------------
(***************************************************************************)
(* Small texts for Cards: a contact with two numbered groups, two types of *)
(* a number, a date and a photo, and a group card.                         *)
(***************************************************************************)
EXTENDS Cards

Capitals ==
    "fn" :> "FN" @@ "tel" :> "TEL" @@ "type" :> "TYPE" @@ "cell" :> "CELL" @@ "home" :> "HOME"
    @@ "item1" :> "ITEM1" @@ "Ann" :> "ANN" @@ "b" :> "B" @@ "Group" :> "GROUP"
    @@ "urn:uuid:" :> "URN:UUID:" @@ "date" :> "DATE" @@ "uri" :> "URI"

SomeDigits == {"1964", "05", "30", "555", "77"}

L(name, value) == Line("first", HeadOf(None, name, <<>>), value, "crlf")

In(group, name, value) == Line("first", HeadOf(group, name, <<>>), value, "crlf")

With(params, name, value) == Line("first", HeadOf(None, name, params), value, "crlf")

Embedded(data) == With(<<Param("ENCODING", <<"BASE64">>)>>, "PHOTO", data)

Linked == With(<<Param("VALUE", <<"uri">>)>>, "PHOTO", <<"https://", "gateway">>)

Begin == <<L("BEGIN", <<"VCARD">>), L("VERSION", <<"3.0">>)>>

End == <<L("END", <<"VCARD">>)>>

\* A UID that is replaced has a parameter, one that replaces another has none.
Uid(u) ==
    IF u = "y" THEN With(<<Param("X-SOURCE", <<"app">>)>>, "UID", <<u>>) ELSE L("UID", <<u>>)

Apple ==
    <<L("REV", <<"noon">>),
      L("VND-63-SENSITIVE-CONTENT-CONFIG", <<"on">>),
      In("item1", "EMAIL", <<"ann", "@">>), In("item1", "X-ABLABEL", <<"work">>),
      In("ITEM2", "EMAIL", <<"ann2", "@">>), In("ITEM2", "X-ABLABEL", <<"sister">>)>>

Person ==
    <<L("fn", <<"Ann", " ", "Lee">>),
      With(<<Param("type", <<"cell">>), Param("TYPE", <<"home">>)>>, "tel", <<"+", "555", "-", "77">>),
      With(<<Param("VALUE", <<"date">>)>>, "BDAY", <<"--", "05", "-", "30">>),
      L("NOTE", <<"a", "\\N", "b">>)>>

Contact(u, more) == Begin \o <<Uid(u)>> \o Person \o Apple \o more \o End

\* The same contact as the other server writes it.
SameContact(u, more) ==
    Begin
    \o <<L("FN", <<"Ann", " ", "Lee">>),
         In("item3", "EMAIL", <<"ann2", "@">>), In("item3", "X-ABLABEL", <<"sister">>),
         In("item1", "X-ABLABEL", <<"work">>), In("item1", "EMAIL", <<"ann", "@">>),
         L("BDAY", <<"--", "05", "30">>),
         With(<<Param("TYPE", <<"home", "cell">>)>>, "TEL", <<"+", "555", "-", "77">>),
         L("NOTE", <<"a", "\\n", "b">>), L("REV", <<"midnight">>), Uid(u)>>
    \o more \o End

GroupCard(members) ==
    Begin \o <<L("UID", <<"g">>), L("X-ADDRESSBOOKSERVER-KIND", <<"Group">>)>>
    \o [i \in DOMAIN members |-> L("X-ADDRESSBOOKSERVER-MEMBER", <<"urn:uuid:", members[i]>>)]
    \o End

Brief(u, fn, more) == Begin \o <<Uid(u), L("FN", fn)>> \o more \o End

\* The contact under two UIDs, one side with a photo of its own; another
\* whose name differs under one UID; and a group on Fastmail alone, with two
\* members whose UIDs changed, one of them to the UID the other had.
TextPairs ==
    {[icloud |-> Contact("x", <<Linked>>), fastmail |-> SameContact("y", <<Embedded(<<"p", "q">>)>>)],
     [icloud |-> Brief("x", <<"Ann">>, <<>>),
      fastmail |-> Brief("x", <<"Ann", " ", "Lee">>, <<Embedded(<<"p", "q">>)>>)],
     [icloud |-> <<>>, fastmail |-> GroupCard(<<"y", "z", "w">>)]}

Replaced == <<"y">> :> <<"z">> @@ <<"z">> :> <<"x">>

GroupLabels == {"item1", "ITEM2", "item3"}

AnnMay == <<"Ann", " ", "May">>

Picture == <<"r", "s">>
=============================================================================
