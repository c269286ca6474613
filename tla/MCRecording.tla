---------------------------- MODULE MCRecording ----------------------------
(* Constants for the model-checking run of Recording: what is asked for, in *)
(* fractions of which a lamport has two and a base unit of a token four,    *)
(* and transactions of which some pay it, some nearly and some not at all.  *)
EXTENDS Recording, Bitwise

MCExclusiveOr(a, b) == a ^^ b

MCMints == "mainnet-beta" :> ("USDC" :> "usdc")
MCFractions == 9 :> 2 @@ 6 :> 4

Session(chain, crypto, amount) ==
    [id |-> "s", type |-> "deposit", chain |-> chain, crypto |-> crypto,
     network |-> "solana", address |-> "w", amount |-> amount]
Withdrawal(chain, crypto, amount) ==
    [Session(chain, crypto, amount) EXCEPT !.id = "x", !.type = "withdrawal"]
        @@ [source |-> "hot", cents |-> 7, rate |-> 1]

\* Whole base units and parts of one, and what the service knows or is
\* configured for and what not.
MCSubjects ==
    UNION {{Session("sol-mainnet", c.crypto, c.amount), Withdrawal("sol-mainnet", c.crypto, c.amount)} :
               c \in {[crypto |-> "SOL", amount |-> 5], [crypto |-> "SOL", amount |-> 6],
                      [crypto |-> "USDC", amount |-> 7], [crypto |-> "USDC", amount |-> 8],
                      [crypto |-> "USDT", amount |-> 8], [crypto |-> "DOGE", amount |-> 6]}}
    \cup {Session("sol-testnet", "SOL", 6), Session("sol-other", "SOL", 6)}

Transfer(from, to, amount, mint) == [from |-> from, to |-> to, amount |-> amount, mint |-> mint]
Tx(signature, type, time, native, tokens) ==
    [signature |-> signature, type |-> type, timestamp |-> time, native |-> native, tokens |-> tokens]

Full == Tx("full", "TRANSFER", 1, <<Transfer("p", "w", 6, "")>>, <<>>)
Short == Tx("short", "TRANSFER", 2, <<Transfer("p", "w", 4, "")>>, <<>>)
Several == Tx("several", "TRANSFER", 3, <<Transfer("q", "", 6, ""), Transfer("q", "shop", 6, ""),
                                         Transfer("p", "w", 8, ""), Transfer("p", "w", 6, "")>>, <<>>)
Swap == Tx("swap", "SWAP", 4, <<Transfer("p", "w", 8, "")>>, <<Transfer("p", "w", 8, "usdc")>>)
Unsigned == Tx("unsigned", "TRANSFER", 5, <<Transfer("", "w", 6, "")>>, <<>>)
Token == Tx("token", "TRANSFER", 6, <<Transfer("p", "w", 2, "")>>, <<Transfer("p", "w", 8, "usdc")>>)
ShortToken == Tx("shortToken", "TRANSFER", 7, <<>>, <<Transfer("p", "w", 4, "usdc")>>)
OtherToken == Tx("otherToken", "TRANSFER", 8, <<>>, <<Transfer("p", "w", 12, "other"),
                                                   Transfer("p", "shop", 12, "usdc")>>)

MCHistories ==
    LET one == {Full, Short, Several, Swap, Unsigned, Token, ShortToken, OtherToken}
    IN  {<<>>} \cup {<<a>> : a \in one}
        \cup {<<a, b>> : a \in {Short, Swap, ShortToken, OtherToken}, b \in one}
        \cup {<<Short, Swap, Full>>}
=============================================================================
