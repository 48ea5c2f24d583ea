------------------------------ MODULE MCRounds -----------------------------
EXTENDS RoundsSafety, TLC

CONSTANTS MaxThings, MaxWhenMoving, MaxWhenWrong

AssetsDef == <<"a", "b">>
TokensDef == <<"t">>
ExitsDef == <<"p", "q">>
ClaimsDef == <<"n", "u", "v", "w">>
DataDef == <<"d", "e">>
OffersDef == <<"o">>
SignersDef == <<"ed25519", "payload">>
SponsoredDef == <<"entry", "balance">>
ClaimAssetDef == [n |-> "native", u |-> "a", v |-> "a", w |-> "b"]
Always == 0..LastInstant
ClaimOpenDef == [n |-> Always, u |-> Always, v |-> 0..2, w |-> Always]
ExitPaysDef == [p |-> "a", q |-> "t"]

Features == {"signer", "locked", "data", "offer", "sponsor", "balance", "empty", "held", "frozen", "token", "p", "q",
             "n", "u", "v", "w"}

Account(F, spare) ==
  LET k == [seq |-> 0, xlm |-> 0,
            master |-> IF "locked" \in F THEN 0 ELSE 1,
            extra |-> IF "signer" \in F \/ "locked" \in F THEN {"ed25519"} ELSE {},
            high |-> IF "signer" \in F THEN 2 ELSE 1,
            data |-> IF "data" \in F THEN {"d"} ELSE {},
            offers |-> IF "offer" \in F THEN {"o"} ELSE {},
            sponsors |-> (IF "sponsor" \in F THEN {"entry"} ELSE {}) \cup IF "balance" \in F THEN {"balance"} ELSE {},
            lines |-> ("a" :> IF {"empty", "held", "frozen", "p"} \cap F = {} THEN NoLine
                              ELSE [held |-> TRUE, balance |-> IF "held" \in F THEN 1 ELSE 0,
                                    auth |-> IF "frozen" \in F THEN "unauthorized" ELSE "authorized"])
                        @@ ("b" :> NoLine),
            tokens |-> ("t" :> IF "token" \in F THEN 1 ELSE 0),
            exits |-> ("p" :> IF "p" \in F THEN 1 ELSE 0) @@ ("q" :> IF "q" \in F THEN 2 ELSE 0),
            claims |-> F \cap {"n", "u", "v", "w"},
            merged |-> FALSE] IN
  [k EXCEPT !.xlm = FeeFloor(k) + spare]

World(F, spare, rate) ==
  [acct |-> Account(F, spare), rate |-> ("a" :> rate) @@ ("b" :> 3) @@ ("t" :> 3),
   room |-> ("a" :> 2) @@ ("b" :> 1), ownerCanPay |-> TRUE, destination |-> TRUE,
   now |-> 0, left |-> {}, memo |-> "none", coming |-> IF Cardinality(F) <= 1 THEN {"n"} \ F ELSE {}]

Shapes(n) == UNION {kSubset(i, Features) : i \in 0..n}

\* Accounts with more of one kind: claims past the reading's ceiling, every sort of sub-entry.
Crowds == {{"n", "u", "w"}, {"u", "v", "w", "held"}, {"signer", "data", "offer", "held", "sponsor"},
           {"p", "q", "token"}, {"p", "token", "held", "u"}, {"token", "frozen", "u"}}

Calm == {[world |-> World(F, spare, rate), payout |-> to, budget |-> 0, sound |-> TRUE] :
           F \in Shapes(MaxThings) \cup Crowds, spare \in {0, 3, 12, 40}, rate \in {0, 3}, to \in {"direct", "mediator"}}
Moving1 == {[world |-> World(F, 40, 3), payout |-> to, budget |-> IF F = {"v"} THEN 3 ELSE 1, sound |-> TRUE] :
           F \in Shapes(MaxWhenMoving), to \in {"direct", "mediator"}}
Wrong == {[world |-> World(F, 40, 3), payout |-> to, budget |-> 2, sound |-> FALSE] :
            F \in Shapes(MaxWhenWrong), to \in {"direct", "mediator"}}
StartsDef == Calm \cup Moving1 \cup Wrong
============================================================================
