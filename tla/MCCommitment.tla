---------------------------- MODULE MCCommitment ----------------------------
(* Commitment with two authorities: one states no accuracy, the other is exact *)
(* and renews its certificate, whose root expires; and small certificate       *)
(* graphs for the strict verification.                                         *)
EXTENDS Commitment, TLC

CONSTANTS freetsa, exact

MCUrls == <<freetsa, exact>>

MCStated == (freetsa :> Omitted) @@ (exact :> 0)

MCPki ==
    [key |-> [free |-> 1, old |-> 2, new |-> 2, inter |-> 3, freeroot |-> 4, exactroot |-> 5],
     issuers |-> [free |-> {"freeroot"}, old |-> {"inter"}, new |-> {"inter"},
                  inter |-> {"exactroot"}, freeroot |-> {"freeroot"}, exactroot |-> {"exactroot"}],
     valid |-> [free |-> -1..4, old |-> -1..0, new |-> 1..4, inter |-> -1..4,
                freeroot |-> -1..4, exactroot |-> -1..2],
     authorities |-> {"inter", "freeroot", "exactroot"},
     stampers |-> {"free", "old", "new"}]

MCLeaves == (freetsa :> {"free"}) @@ (exact :> {"old", "new"})

MCChains == [free |-> <<"free">>, old |-> <<"old", "inter">>, new |-> <<"inter", "new">>]

MCRoots == {"freeroot", "exactroot"}

-----------------------------------------------------------------------------
\* Certificate graphs: "new" signs, "old" is an earlier certificate of its key; two
\* intermediates and a root that issue each other in any way, valid or not.
Issuing == {"i1", "i2", "root"}

GraphKeys == [old |-> 1, new |-> 1, i1 |-> 2, i2 |-> 3, root |-> 4]

CertGraphs ==
    {[key |-> GraphKeys, authorities |-> Issuing, stampers |-> {"old", "new"},
      issuers |-> [old |-> {"i1"}, new |-> n, i1 |-> a, i2 |-> b, root |-> {"root"}],
      valid |-> [c \in DOMAIN GraphKeys |-> IF c \in good THEN {1} ELSE {}]] :
        n \in SUBSET Issuing, a \in SUBSET {"i2", "root"}, b \in SUBSET {"i1", "root"},
        good \in SUBSET DOMAIN GraphKeys}

CertLists == {<<"new", "i1", "i2">>, <<"old", "new", "i1", "i2">>, <<"i2", "new", "old">>,
              <<"new", "root">>, <<"i1", "old">>}

Sids == {[by |-> "serial", cert |-> "new"], [by |-> "key", key |-> 1]}

PinnedSets == {{}, {"new"}, {"i1"}, {"root"}, {"i2", "root"}}

MCCases == [pki : CertGraphs, signer : {"new"}, certs : CertLists, sid : Sids, anchors : PinnedSets]
=============================================================================
