------------------------------ MODULE Runtime ------------------------------
(***************************************************************************)
(* How the node runs one instruction of a built-in program: execution.rs   *)
(* (apply), himsha-vm (dispatch), himsha-runtime (account, owner, cpi).    *)
(*                                                                         *)
(* An instruction names accounts in slots, some of them flagged writable.  *)
(* The program works on one copy of the account per slot; afterwards the   *)
(* owner gate compares every copy with what it was before, and all copies  *)
(* are stored, slot by slot.  An error anywhere stores nothing.  A         *)
(* transaction of several instructions is a sequence of such steps.        *)
(***************************************************************************)
EXTENDS Integers, Sequences, FiniteSets, FiniteSetsExt

CONSTANT Keys

ASSUME RuntimeAssumption == IsFiniteSet(Keys)

Programs == {"system", "token", "ata"}

\* Contents of an account that no program has written: none, or a buffer of
\* zeros of a length that no program's layout has.
NoData == [kind |-> "none"]
Zeros  == [kind |-> "zeros"]

VARIABLES acct,     \* ACCOUNTS: the stored accounts by key
          shadowed  \* history: a changed copy was followed by another copy of
                    \* the same account, not both flagged writable, and
                    \* the later one stayed
VARIABLES granted,  \* lamports the faucet handed out
          call,     \* the faucet call under way: what it will store where
          raced     \* history: an instruction and a faucet call read an account
                    \* and then both stored it

faucetVars == <<granted, call, raced>>

\* Accounts with such contents.
Account(Data) ==
  [lamports : Nat, owner : Programs, data : Data, anchor : BOOLEAN]

\* An account nobody has stored yet belongs to the program that names it.
Fresh(program) ==
  [lamports |-> 0, owner |-> program, data |-> NoData, anchor |-> FALSE]

Load(program, k) == IF k \in DOMAIN acct THEN acct[k] ELSE Fresh(program)

reject_duplicate_writable_Mutant(slots, writable) == TRUE

\* No key is in two writable slots.
reject_duplicate_writable(slots, writable) ==
  \A i, j \in writable \cap DOMAIN slots : slots[i] = slots[j] => i = j

-----------------------------------------------------------------------------
(***************************************************************************)
(* The owner gate.                                                         *)
(***************************************************************************)

is_blank(a) == a.lamports = 0 /\ a.data = NoData /\ ~a.anchor

credit_only_Mutant(pre, post) == post.lamports >= pre.lamports

credit_only(pre, post) ==
  /\ post.lamports >= pre.lamports
  /\ post = [pre EXCEPT !.lamports = post.lamports]

\* May the program leave post where pre was?  approved are the states that
\* programs it called were allowed to leave there.
validate_write(program, pre, post, approved) ==
  \/ post = pre
  \/ pre.owner = program
  \/ credit_only(pre, post)
  \/ is_blank(pre)
  \/ post \in approved

\* The first program to write a blank account becomes its owner, unless the
\* write names another one.
claim(program, pre, post) ==
  IF pre.owner # program /\ ~credit_only(pre, post) /\ is_blank(pre)
       /\ post.owner = pre.owner
  THEN [post EXCEPT !.owner = program]
  ELSE post

-----------------------------------------------------------------------------
\* The copies are stored in the order of the slots, so the last one stays.
Store(slots, copies) ==
  LET Named == {slots[i] : i \in DOMAIN slots}
      Last(k) == Max({i \in DOMAIN slots : slots[i] = k})
  IN [k \in DOMAIN acct \cup Named |-> IF k \in Named THEN copies[Last(k)] ELSE acct[k]]

NoCall == [n |-> 0]

\* The node's tasks share the database: a faucet call that stores an account
\* after the instruction has read it is overwritten when the instruction ends.
Meanwhile(Named) ==
  \/ UNCHANGED faucetVars
  \/ /\ call # NoCall /\ call.key \in Named /\ call' = NoCall
     /\ granted' = granted + call.n /\ raced' = TRUE

\* The program runs and leaves changed[i] in the slots it changed; approved is
\* what its callees were allowed to leave.
Execute(program, slots, writable, changed, approved) ==
  LET before == [i \in DOMAIN slots |-> Load(program, slots[i])]
      after  == [i \in DOMAIN slots |->
                   IF i \in DOMAIN changed THEN changed[i] ELSE before[i]]
  IN /\ reject_duplicate_writable(slots, writable)
     /\ \A i \in DOMAIN slots : validate_write(program, before[i], after[i], approved)
     /\ acct' = Store(slots, [i \in DOMAIN slots |-> claim(program, before[i], after[i])])
     /\ shadowed' = (shadowed \/ \E i, j \in DOMAIN slots :
                       /\ i < j /\ slots[i] = slots[j] /\ ~({i, j} \subseteq writable)
                       /\ after[i] # before[i])
     /\ Meanwhile({slots[i] : i \in DOMAIN slots})

\* A called program turns the copy pre into post: what the caller gets back, if
\* the gate lets it.
invoke_allowed(callee, pre, post) == validate_write(callee, pre, post, {})
invoke_indexed(callee, pre, post) == claim(callee, pre, post)
=============================================================================
