---------------------------- MODULE Instructions ----------------------------
(***************************************************************************)
(* The instructions of the built-in programs (himsha-programs), as far as  *)
(* the runtime can see them.                                               *)
(*                                                                         *)
(*   TokenInstruction ...  the accounts an instruction expects, slot by    *)
(*                         slot: the program that owns the account, or a   *)
(*                         wallet, an account yet to be made ("new") or    *)
(*                         one that is made on first use ("position");     *)
(*   token_transfer ...    the instruction that a client's builder makes:  *)
(*                         its program, its name and its slots' flags;     *)
(*   TokenProcess ...      what the program does to its slots, in order:   *)
(*                         one sequence of effects per way to succeed.     *)
(*                                                                         *)
(* Amounts and the checks on the contents of accounts are left out: the    *)
(* programs' own modules are about them, and here a program may stop with  *)
(* an error between any two effects.  Slots count from 1.                  *)
(***************************************************************************)
EXTENDS Integers, Sequences, FiniteSets

\* An instruction: flags[i] says whether slot i is writable (W) and signed (S).
Ix(program, name, flags) == [program |-> program, name |-> name, flags |-> flags]

\* The effects.  Only write_data looks at the writable flag.
Sign(i) == [op |-> "sign", slot |-> i]       \* require_signer
Put(i)  == [op |-> "put", slot |-> i]        \* write_data
Set(i)  == [op |-> "set", slot |-> i]        \* contents or lamports changed directly
Add(i)  == [op |-> "add", slot |-> i]        \* lamports added directly
Give(i) == [op |-> "give", slot |-> i]       \* contents and owner set directly
Rekey   == [op |-> "rekey", slot |-> 1]      \* another table of accounts returned
\* A call of another program with those slots, signing for some of its slots.
Call(program, name, window, signed) ==
  [op |-> "call", program |-> program, name |-> name, window |-> window, signed |-> signed]

Once(effects) == {effects}

-----------------------------------------------------------------------------
(***************************************************************************)
(* The system program.                                                     *)
(***************************************************************************)
SystemInstruction ==
  [CreateAccount           |-> <<"wallet", "new">>,
   CreateAccountWithAnchor |-> <<"wallet", "new">>,
   Transfer                |-> <<"wallet", "wallet">>,
   Assign                  |-> <<"wallet">>,
   Allocate                |-> <<"wallet">>]

system_create_account             == Ix("system", "CreateAccount", <<"WS", "WS">>)
system_create_account_with_anchor == Ix("system", "CreateAccountWithAnchor", <<"WS", "WS">>)
system_transfer                   == Ix("system", "Transfer", <<"WS", "W">>)
system_assign                     == Ix("system", "Assign", <<"WS">>)
system_allocate                   == Ix("system", "Allocate", <<"WS">>)

ensure_signers == <<Sign(1)>>

SystemProcess ==
  [CreateAccount           |-> Once(ensure_signers \o <<Set(1), Give(2)>>),
   CreateAccountWithAnchor |-> Once(ensure_signers \o <<Give(2)>>),
   Transfer                |-> Once(ensure_signers \o <<Set(1), Add(2)>>),
   Assign                  |-> Once(ensure_signers \o <<Give(1)>>),
   Allocate                |-> Once(ensure_signers \o <<Set(1)>>)]

-----------------------------------------------------------------------------
(***************************************************************************)
(* The token and the associated token account programs.                    *)
(***************************************************************************)
TokenInstruction ==
  [InitializeMint    |-> <<"new">>,
   InitializeAccount |-> <<"new", "token", "wallet">>,
   MintTo            |-> <<"token", "token", "wallet">>,
   Transfer          |-> <<"token", "token", "wallet">>,
   Burn              |-> <<"token", "token", "wallet">>,
   Approve           |-> <<"token", "wallet", "wallet">>,
   Revoke            |-> <<"token", "wallet">>,
   FreezeAccount     |-> <<"token", "wallet">>,
   ThawAccount       |-> <<"token", "wallet">>,
   CloseAccount      |-> <<"token", "wallet", "wallet">>]

token_initialize_mint    == Ix("token", "InitializeMint", <<"W">>)
token_initialize_account == Ix("token", "InitializeAccount", <<"W", "R", "R">>)
token_mint_to            == Ix("token", "MintTo", <<"W", "W", "RS">>)
token_transfer           == Ix("token", "Transfer", <<"W", "W", "RS">>)
token_burn               == Ix("token", "Burn", <<"W", "W", "RS">>)

TwoWrites == Once(<<Sign(3), Put(1), Put(2)>>)

TokenProcess ==
  [InitializeMint    |-> Once(<<Put(1)>>),
   InitializeAccount |-> Once(<<Put(1)>>),
   MintTo            |-> TwoWrites,
   Transfer          |-> TwoWrites,
   Burn              |-> TwoWrites,
   Approve           |-> Once(<<Put(1)>>),
   Revoke            |-> Once(<<Put(1)>>),
   FreezeAccount     |-> Once(<<Put(1)>>),
   ThawAccount       |-> Once(<<Put(1)>>),
   CloseAccount      |-> Once(<<Add(2), Set(1)>>)]

\* Calls of the token program.
TokenCall(name, window)               == Call("token", name, window, {})
TokenCallSigned(name, window, signed) == Call("token", name, window, signed)

AtaInstruction == [Create |-> <<"wallet", "new", "wallet", "token">>]

create_associated_token_account == Ix("ata", "Create", <<"WS", "W", "R", "R">>)

\* An address with contents is left alone.
AtaProcess == [Create |-> {<<>>, <<TokenCall("InitializeAccount", <<2, 4>>)>>}]

-----------------------------------------------------------------------------
(***************************************************************************)
(* The swap program.                                                       *)
(***************************************************************************)
SwapInstruction ==
  [Initialize |-> <<"new", "token", "token", "token", "token", "token", "wallet">>,
   Swap       |-> <<"swap", "token", "token", "token", "token", "wallet">>,
   Deposit    |-> <<"swap", "token", "token", "token", "token", "token", "wallet", "token">>,
   Withdraw   |-> <<"swap", "token", "token", "token", "token", "token", "wallet", "token">>]

swap_initialize == Ix("swap", "Initialize", <<"W", "R", "R", "W", "W", "W", "WS">>)
swap_swap       == Ix("swap", "Swap", <<"R", "W", "W", "W", "W", "RS">>)

\* The user's authority does for what the user pays; the pool signs for what it
\* pays in a swap.
SwapProcess ==
  [Initialize |-> Once(<<Put(1)>>),
   Swap       |-> Once(<<Sign(6), TokenCall("Transfer", <<2, 4, 6>>),
                         TokenCallSigned("Transfer", <<5, 3, 1>>, {3}), Put(1)>>),
   Deposit    |-> Once(<<Sign(7), TokenCall("Transfer", <<2, 4, 7>>),
                         TokenCall("Transfer", <<3, 5, 7>>),
                         TokenCall("MintTo", <<8, 6, 7>>), Put(1)>>),
   Withdraw   |-> Once(<<Sign(7), TokenCall("Burn", <<6, 8, 7>>),
                         TokenCall("Transfer", <<4, 2, 7>>),
                         TokenCall("Transfer", <<5, 3, 7>>), Put(1)>>)]

-----------------------------------------------------------------------------
(***************************************************************************)
(* The oracle and the lending programs.                                    *)
(***************************************************************************)
OracleInstruction ==
  [InitFeed |-> <<"new", "wallet">>, UpdatePrice |-> <<"oracle", "wallet">>,
   AddPublisher |-> <<"oracle", "wallet">>, RemovePublisher |-> <<"oracle", "wallet">>]

admin_ix(name)          == Ix("oracle", name, <<"W", "RS">>)
oracle_init_feed        == admin_ix("InitFeed")
oracle_update_price     == admin_ix("UpdatePrice")
oracle_add_publisher    == admin_ix("AddPublisher")
oracle_remove_publisher == admin_ix("RemovePublisher")

require_authority == <<Sign(2)>>

OracleProcess ==
  [InitFeed        |-> Once(<<Sign(2), Put(1)>>),
   UpdatePrice     |-> Once(<<Sign(2), Put(1)>>),
   AddPublisher    |-> Once(require_authority \o <<Put(1)>>),
   RemovePublisher |-> Once(require_authority \o <<Put(1)>>)]

LendingInstruction ==
  [InitCollection |-> <<"new", "wallet">>, PlaceBid |-> <<"lending", "wallet">>,
   CancelBid |-> <<"lending", "wallet">>, AcceptBid |-> <<"lending", "wallet">>,
   RepayLoan |-> <<"lending", "wallet">>, ClaimDefault |-> <<"lending", "wallet">>]

lending_init_collection == Ix("lending", "InitCollection", <<"W", "WS">>)
lending_place_bid       == Ix("lending", "PlaceBid", <<"W", "RS">>)
lending_cancel_bid      == Ix("lending", "CancelBid", <<"W", "RS">>)
lending_accept_bid      == Ix("lending", "AcceptBid", <<"W", "RS">>)
lending_repay_loan      == Ix("lending", "RepayLoan", <<"W", "RS">>)
lending_claim_default   == Ix("lending", "ClaimDefault", <<"W", "RS">>)

\* One check of the signer before the instruction is looked at.
LendingProcess ==
  [name \in DOMAIN LendingInstruction |-> Once(<<Sign(2), Put(1)>>)]

-----------------------------------------------------------------------------
(***************************************************************************)
(* The money market.                                                       *)
(***************************************************************************)
MoneyMarketInstruction ==
  LET Position == <<"mm", "position", "token", "token", "wallet">>
  IN [InitMarket |-> <<"new", "token", "token", "token", "token", "wallet", "oracle">>,
      AddLiquidity |-> Position, RemoveLiquidity |-> Position,
      Supply |-> Position, Withdraw |-> Position, Borrow |-> Position, Repay |-> Position,
      Liquidate |-> <<"mm", "mm", "token", "token", "token", "token", "wallet">>,
      SyncPrice |-> <<"mm", "oracle">>]

mm_init_market        == Ix("mm", "InitMarket", <<"W", "R", "R", "W", "W", "RS", "R">>)
mm_sync_price         == Ix("mm", "SyncPrice", <<"W", "R">>)
liquidity_ix(name)    == Ix("mm", name, <<"W", "W", "W", "W", "RS">>)
mm_add_liquidity      == liquidity_ix("AddLiquidity")
mm_remove_liquidity   == liquidity_ix("RemoveLiquidity")
vault_ix(name)        == Ix("mm", name, <<"W", "W", "W", "W", "RS">>)
mm_supply             == vault_ix("Supply")
mm_withdraw           == vault_ix("Withdraw")
mm_borrow             == vault_ix("Borrow")
mm_repay              == vault_ix("Repay")
mm_liquidate          == Ix("mm", "Liquidate", <<"W", "W", "W", "W", "W", "W", "RS">>)

mm_transfer(from, to, authority) == TokenCall("Transfer", <<from, to, authority>>)
mm_transfer_signed(from, to)     == TokenCallSigned("Transfer", <<from, to, 1>>, {3})

\* Tokens come in with the user's authority and go out with the market's.
MoneyMarketProcess ==
  LET In  == Once(<<Sign(5), mm_transfer(3, 4, 5), Put(1), Put(2)>>)
      Out == Once(<<Sign(5), mm_transfer_signed(4, 3), Put(1), Put(2)>>)
  IN [InitMarket |-> Once(<<Sign(6), Put(1)>>),
      SyncPrice  |-> Once(<<Put(1)>>),
      AddLiquidity |-> In, Supply |-> In, Repay |-> In,
      RemoveLiquidity |-> Out, Withdraw |-> Out, Borrow |-> Out,
      Liquidate |-> Once(<<Sign(7), mm_transfer(3, 4, 7), mm_transfer_signed(6, 5),
                           Put(1), Put(2)>>)]

-----------------------------------------------------------------------------
(***************************************************************************)
(* The vault.                                                              *)
(***************************************************************************)
VaultInstruction ==
  LET User == <<"vault", "token", "token", "token", "token", "wallet", "mm", "position", "token">>
      Strategy == <<"vault", "token", "mm", "position", "token", "wallet">>
  IN [InitVault |-> <<"new", "token", "token", "token", "wallet">>,
      Deposit |-> User, Withdraw |-> User,
      Report |-> <<"vault", "wallet", "token", "token", "token", "mm">>,
      Deploy |-> Strategy, Undeploy |-> Strategy]

vault_init_vault         == Ix("vault", "InitVault", <<"W", "R", "R", "W", "RS">>)
user_ix(name)            == Ix("vault", name, <<"W", "W", "W", "W", "W", "RS">>)
vault_deposit            == user_ix("Deposit")
vault_withdraw           == user_ix("Withdraw")
vault_report             == Ix("vault", "Report", <<"W", "RS", "R", "W", "W">>)
vault_report_with_market == Ix("vault", "Report", <<"W", "RS", "R", "W", "W", "R">>)
strategy_ix_Mutant(name) == Ix("vault", name, <<"W", "W", "R", "W", "W", "RS">>)
strategy_ix(name)        == Ix("vault", name, <<"W", "W", "W", "W", "W", "RS">>)
vault_deploy             == strategy_ix("Deploy")
vault_undeploy           == strategy_ix("Undeploy")

vault_token_transfer(from, to, authority) == TokenCall("Transfer", <<from, to, authority>>)
vault_token_transfer_signed(from, to)     == TokenCallSigned("Transfer", <<from, to, 1>>, {3})
vault_mint_signed(mint, to)               == TokenCallSigned("MintTo", <<mint, to, 1>>, {3})
vault_burn(from, mint, authority)         == TokenCall("Burn", <<from, mint, authority>>)
\* The vault is the provider of the liquidity, and signs as such.
mm_liquidity(name, market, position, from, to) ==
  Call("mm", name, <<market, position, from, to, 1>>, {5})

VaultProcess ==
  LET Redeem == <<vault_burn(4, 5, 6), vault_token_transfer_signed(3, 2), Put(1)>>
      Recall == <<mm_liquidity("RemoveLiquidity", 7, 8, 3, 9)>>
  IN [InitVault |-> Once(<<Sign(5), Put(1)>>),
      Deposit   |-> Once(<<Sign(6), vault_token_transfer(2, 3, 6), vault_mint_signed(5, 4), Put(1)>>),
      Withdraw  |-> {<<Sign(6)>> \o Redeem, <<Sign(6)>> \o Recall \o Redeem},
      Report    |-> {<<Sign(2), Put(1)>>, <<Sign(2), vault_mint_signed(4, 5), Put(1)>>},
      Deploy    |-> Once(<<Sign(6), mm_liquidity("AddLiquidity", 3, 4, 2, 5), Put(1)>>),
      Undeploy  |-> Once(<<Sign(6), mm_liquidity("RemoveLiquidity", 3, 4, 2, 5), Put(1)>>)]

-----------------------------------------------------------------------------
(***************************************************************************)
(* Runes and metadata.                                                     *)
(***************************************************************************)
RuneInstruction ==
  [Etch |-> <<"new", "balance", "wallet">>, Mint |-> <<"runes", "balance", "wallet">>,
   Transfer |-> <<"runes", "balance", "wallet">>, Burn |-> <<"runes", "runes", "wallet">>,
   InitBalance |-> <<"new", "wallet">>]

runes_etch         == Ix("runes", "Etch", <<"W", "W", "RS">>)
runes_mint         == Ix("runes", "Mint", <<"W", "W", "RS">>)
runes_transfer     == Ix("runes", "Transfer", <<"W", "W", "RS">>)
runes_burn         == Ix("runes", "Burn", <<"W", "W", "RS">>)
runes_init_balance == Ix("runes", "InitBalance", <<"W", "R">>)

\* Etch touches the balance only for a premine.
RuneProcess ==
  [Etch |-> TwoWrites \cup {<<Sign(3), Put(1)>>}, Mint |-> TwoWrites, Transfer |-> TwoWrites,
   Burn |-> TwoWrites, InitBalance |-> Once(<<Put(1)>>)]

MetadataInstruction ==
  [Create |-> <<"new", "token", "wallet">>, Update |-> <<"nft", "wallet">>,
   VerifyCreator |-> <<"nft", "wallet">>, MakeImmutable |-> <<"nft", "wallet">>]

nft_create_metadata == Ix("nft", "Create", <<"W", "R", "RS">>)
nft_update_metadata == Ix("nft", "Update", <<"W", "RS">>)

\* Nobody's signature is asked for.
MetadataProcess == [name \in DOMAIN MetadataInstruction |-> Once(<<Put(1)>>)]

-----------------------------------------------------------------------------
(***************************************************************************)
(* A deployed program runs as a zkVM guest.  It calls nobody and may return *)
(* anything, another table of accounts too.                                *)
(***************************************************************************)
GuestInstruction == [Run |-> <<"wallet", "token">>, RunOwn |-> <<"guest", "new">>]

GuestProcess ==
  LET Any == {Sign(1)} \cup UNION {{Set(i), Add(i), Give(i)} : i \in 1 .. 2}
  IN [name \in DOMAIN GuestInstruction |-> {<<Rekey>>} \cup {<<e, f>> : e, f \in Any}]

-----------------------------------------------------------------------------
Instruction ==
  [system |-> SystemInstruction, token |-> TokenInstruction, ata |-> AtaInstruction,
   swap |-> SwapInstruction, oracle |-> OracleInstruction, lending |-> LendingInstruction,
   mm |-> MoneyMarketInstruction, vault |-> VaultInstruction, runes |-> RuneInstruction,
   nft |-> MetadataInstruction, guest |-> GuestInstruction]

\* The program that an id is routed to.
run_builtin ==
  [system |-> SystemProcess, token |-> TokenProcess, ata |-> AtaProcess,
   swap |-> SwapProcess, oracle |-> OracleProcess, lending |-> LendingProcess,
   mm |-> MoneyMarketProcess, vault |-> VaultProcess, runes |-> RuneProcess,
   nft |-> MetadataProcess, guest |-> GuestProcess]

Builders ==
  {system_create_account, system_create_account_with_anchor, system_transfer, system_assign,
   system_allocate, token_initialize_mint, token_initialize_account, token_mint_to,
   token_transfer, token_burn, create_associated_token_account, swap_initialize, swap_swap,
   oracle_init_feed, oracle_update_price, oracle_add_publisher, oracle_remove_publisher,
   lending_init_collection, lending_place_bid, lending_cancel_bid, lending_accept_bid,
   lending_repay_loan, lending_claim_default, mm_init_market, mm_sync_price, mm_add_liquidity,
   mm_remove_liquidity, mm_supply, mm_withdraw, mm_borrow, mm_repay, mm_liquidate,
   vault_init_vault, vault_deposit, vault_withdraw, vault_report, vault_report_with_market,
   vault_deploy, vault_undeploy, runes_etch, runes_mint, runes_transfer, runes_burn,
   runes_init_balance, nft_create_metadata, nft_update_metadata}

\* Instructions that clients put together without a builder.
ByHand ==
  {Ix("token", "Approve", <<"W", "R", "RS">>), Ix("token", "Revoke", <<"W", "RS">>),
   Ix("token", "FreezeAccount", <<"W", "RS">>), Ix("token", "ThawAccount", <<"W", "RS">>),
   Ix("token", "CloseAccount", <<"W", "W", "RS">>),
   Ix("swap", "Swap", <<"W", "W", "W", "W", "W", "RS">>),
   Ix("swap", "Deposit", <<"W", "W", "W", "W", "W", "W", "RS", "W">>),
   Ix("swap", "Withdraw", <<"W", "W", "W", "W", "W", "W", "RS", "W">>),
   Ix("vault", "Withdraw", <<"W", "W", "W", "W", "W", "RS", "W", "W", "W">>),
   Ix("nft", "VerifyCreator", <<"W", "RS">>), Ix("nft", "MakeImmutable", <<"W", "RS">>),
   Ix("guest", "Run", <<"WS", "W">>), Ix("guest", "RunOwn", <<"W", "R">>)}
=============================================================================
