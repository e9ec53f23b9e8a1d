---------------------------- MODULE MCCallRouting ----------------------------
(***************************************************************************)
(* CallRouting with half-octets of four values: an octet has 16, a         *)
(* facility field at most 15 octets, an address at most three digits.      *)
(* Facility codes 0-3 are of class 0, 4-7 of class 1, 12-15 of class 3.    *)
(***************************************************************************)
EXTENDS CallRouting

Srv(prefix, plen, ip, name, need, via) ==
    [prefix |-> prefix, plen |-> plen, ip |-> ip, name |-> name, need |-> need, via |-> via]

\* A name for 0.., two addresses for 1.. with the longer prefix second,
\* malformed and unusable entries with still longer prefixes, 2.. on this
\* host, or at an address isLocalIP does not know, 3.. behind an explicit host,
\* which for 30.. is this one.
MCServers == <<Srv(<<0>>, 1, NoIP, TRUE, 2, NoIP),
               Srv(<<1>>, 1, "away", FALSE, NoPattern, NoIP),
               Srv(<<1, 2>>, 2, "other", FALSE, NoPattern, NoIP),
               Srv(<<1, 2>>, 2, "away", FALSE, NoPattern, NoIP),
               Srv(<<1, 2, 1>>, 2, "away", FALSE, NoPattern, NoIP),
               Srv(<<1, 2, 1>>, NoPlen, "away", FALSE, NoPattern, NoIP),
               Srv(<<1, 2, 1>>, 3, "away", TRUE, NoPattern, NoIP),
               Srv(<<2>>, 1, Here, FALSE, NoPattern, NoIP),
               Srv(<<2, 1>>, 2, Alias, FALSE, NoPattern, NoIP),
               Srv(<<3>>, 1, "other", FALSE, NoPattern, "away"),
               Srv(<<3, 0>>, 2, "other", FALSE, NoPattern, Here),
               Srv(<<3, 3>>, 2, NoIP, TRUE, NoPattern, NoIP)>>

\* One facility of each class; the value of 6 is too short for its class.
MCDestinations ==
    (<<0, 2>> :> (1 :> <<9>> @@ 13 :> <<8, 8>>)) @@
    (<<1, 2, 1>> :> (1 :> <<7>> @@ 6 :> <<7>>)) @@
    (<<3>> :> (4 :> <<>>)) @@
    (<<3, 1, 2>> :> (4 :> <<5, 5>> @@ 14 :> <<>>))

Call(called, calling, facs, cud) ==
    [called |-> called, calling |-> calling, facs |-> facs, cud |-> cud, gfi |-> 2, lci |-> 18]
Fac(code, val) == [code |-> code, val |-> val]

\* A duplicate facility; a field that the configured ones no longer fit in;
\* a call that is too long.
MCCalls ==
    {Call(<<0, 2>>, <<3>>, <<Fac(1, <<1>>), Fac(4, <<2, 3>>), Fac(1, <<4>>)>>, <<5>>),
     Call(<<0, 2>>, <<1, 2, 3>>, <<Fac(13, <<1, 2, 3, 4, 5>>), Fac(8, <<6, 6, 6>>)>>, <<>>),
     Call(<<0, 2>>, <<1, 2, 3>>, <<Fac(12, <<1, 2, 3, 4, 5, 6, 7>>), Fac(4, <<6, 6>>)>>, <<>>),
     Call(<<0>>, <<>>, <<>>, <<>>),
     Call(<<1, 2, 1>>, <<0, 3>>, <<Fac(6, <<1, 1>>), Fac(1, <<2>>)>>, <<14, 15>>),
     Call(<<1, 3>>, <<>>, <<Fac(2, <<1>>)>>, <<>>),
     Call(<<>>, <<2, 1>>, <<>>, <<>>),
     Call(<<2>>, <<1>>, <<Fac(15, <<>>)>>, <<3>>),
     Call(<<2, 1>>, <<1>>, <<>>, <<>>),
     Call(<<3, 0>>, <<1>>, <<>>, <<>>),
     Call(<<3, 1, 2>>, <<2>>, <<>>, <<1, 2>>),
     Call(<<3, 3>>, <<2, 2>>, <<>>, <<1>>),
     Call(<<1>>, <<>>, <<>>, <<1, 2, 3, 4, 5, 6, 7, 8, 9, 10, 11, 12, 13, 14, 15>>)}

MCAnswers == {<<"away">>, <<Here>>, <<"away", Here>>, <<Alias>>}
=============================================================================
