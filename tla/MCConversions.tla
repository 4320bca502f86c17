--------------------------- MODULE MCConversions ---------------------------
(***************************************************************************)
(* Bounded sets of inputs for Conversions.                                 *)
(***************************************************************************)
EXTENDS Conversions

\* Sequences of at most n elements.
Upto(S, n) == UNION {[1 .. k -> S] : k \in 0 .. n}

SomeArns ==
    {[parses |-> TRUE, partition |-> "aws", service |-> "kms", region |-> r] : r \in Regions}
    \cup {[parses |-> TRUE, partition |-> "aws-cn", service |-> "kms", region |-> "r1"],
          [parses |-> TRUE, partition |-> "aws", service |-> "s3", region |-> "r1"],
          [parses |-> TRUE, partition |-> "aws", service |-> "kms", region |-> None],
          NotParsed}

SomeRoutes ==
    [arns : Upto(SomeArns, 2), credentials : {"r1", "r3"}, localstack : BOOLEAN,
     basePort : {10316},
     endpoint : {[host |-> "localhost", port |-> 10316], [host |-> "localhost", port |-> 443]},
     hostArns : Upto(SomeArns, 2), hostLocalstack : BOOLEAN, transport : {"tcp", "vsock"}]
-----------------------------------------------------------------------------
SomeStrings ==
    {[alphabet |-> {0, 1, 31, 63, 128, 129}, most |-> 6],
     [alphabet |-> {0, 2, 48, 128}, most |-> 8]}

SomeLengths == {0, 119, 123, 124, 126, 127, 128, 129, 255, 256}
-----------------------------------------------------------------------------
\* Contents in one value, in one fragment, cut at single bytes, blocks, beyond the end.
SomeStyles ==
    {style \in [compound : BOOLEAN, cuts : {<<>>, <<1, 2, 3, 4, 5>>, <<BlockSize>>, <<2, 2, BlockSize + 1, 99>>},
                parameters : {Absent, "null"}, label : {Absent, "pSpecified"}] :
        style.compound \/ style.cuts = <<>>}

Plain == [compound |-> TRUE, cuts |-> <<BlockSize>>, parameters |-> Absent, label |-> "pSpecified"]

SomeMessages == [data : Upto({1, 7}, 4), style : SomeStyles]

SomePadded == Upto(0 .. BlockSize + 1, 2 * BlockSize)
-----------------------------------------------------------------------------
SomeKeyArns == {"a", "b"}
ArnLists == {<<>>, <<"a">>, <<"b">>, <<"a", "b">>, <<"b", "a">>}

SomeEnvelopes ==
    [first : {e \in [key : {"rsa1"}, nitro : BOOLEAN, nsm : NsmOutcomes] :
                 e.nitro \/ e.nsm = "document"},
     firstArns : ArnLists, up1 : SUBSET KeyArns, style1 : {Plain},
     second : {e \in [key : {"rsa2"}, nitro : BOOLEAN, nsm : NsmOutcomes] :
                 e.nitro \/ e.nsm = "document"},
     secondArns : ArnLists, up2 : SUBSET KeyArns,
     style2 : {[Plain EXCEPT !.compound = FALSE, !.cuts = <<>>]},
     shared : SUBSET KeyArns, algorithm : {"bls", Unspecified},
     dataKey : {[i \in 1 .. KeySize |-> 7]}, secret : {<<7, 7, 1>>}]
-----------------------------------------------------------------------------
Entries == {[timeout |-> t, attempts |-> a] : t \in {-1, 0, 7}, a \in {0, 3}}

\* The configurations of one method's entries, in any of the spellings.
MethodMaps(method) ==
    UNION {[{method} \X spellings -> Entries] : spellings \in SUBSET AllSpellings}

SomeConfigs ==
    UNION {[method : {m}, cfg : [methods : MethodMaps(m), requestTimeout : {0, 5},
                                 maxAttempts : {0, 2}]] : m \in {"Initialize", "SignMessage"}}
    \cup [method : RpcMethods, cfg : {DefaultConfig}]
    \cup [method : RpcMethods,
          cfg : [methods : {<<>>}, requestTimeout : {-1, 5}, maxAttempts : {0, 2}]]
-----------------------------------------------------------------------------
Certificates == [parses : {TRUE}, notBefore : 1 .. 3, notAfter : 1 .. 3]

SomeDocuments ==
    [document :
        [tag : {"none", "sign1"}, fields : {4}, decodes : {TRUE}, chain : Upto(Certificates, 3)]
        \cup [tag : {"none", "sign1", "other", "garbage"}, fields : {3, 4, 5}, decodes : BOOLEAN,
              chain : Upto([parses : BOOLEAN, notBefore : {1}, notAfter : {3}], 2)],
     now : 0 .. 4]
=============================================================================
