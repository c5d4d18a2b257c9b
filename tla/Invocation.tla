----------------------------- MODULE Invocation -----------------------------
(***************************************************************************)
(* One instruction on its way through the runtime: the node lays out its   *)
(* accounts and rejects doubles (execution.rs), the executor runs the      *)
(* program (himsha-vm), which calls other programs (cpi.rs) within a depth *)
(* and a budget (compute.rs), and the owner gate (owner.rs) judges every   *)
(* copy of an account when a call returns and when the instruction ends.   *)
(*                                                                         *)
(* An account is its owner, its lamports and the list of the programs that *)
(* wrote its contents: who wrote is what the gate is about.                *)
(***************************************************************************)
EXTENDS Instructions, SequencesExt

CONSTANTS MAX_CPI_DEPTH, COMPUTE_BUDGET,
          CPI_BASE_COST, PER_ACCOUNT_COST,
          Residue,        \* compute units that earlier instructions left on the meter
          Strangers,      \* programs that own accounts passed by mistake
          MaxDeviations   \* bound: in how many ways a client departs from the builder

ASSUME InvocationAssumption ==
  /\ {MAX_CPI_DEPTH, COMPUTE_BUDGET, CPI_BASE_COST, PER_ACCOUNT_COST, MaxDeviations} \subseteq Nat
  /\ Residue \subseteq 0 .. COMPUTE_BUDGET /\ Strangers \subseteq DOMAIN Instruction

VARIABLES ix,        \* the instruction, its keys, and whether it is as the builder makes it
          acct,      \* the stored accounts by key
          stack,     \* the running programs, the called one last
          approved,  \* APPROVED: by key, the last state the gate let a program leave
          spent,     \* SPENT: compute units so far
          outcome    \* running, accepted, or the error

invocationVars == <<ix, acct, stack, approved, spent, outcome>>

Account(owner, lamports, data) == [owner |-> owner, lamports |-> lamports, data |-> data]

IsWritable(flag) == flag \in {"W", "WS"}
IsSigner(flag)   == flag \in {"RS", "WS"}
Flags            == {"R", "W", "RS", "WS"}

-----------------------------------------------------------------------------
(***************************************************************************)
(* The instructions that clients send, and the accounts they find.         *)
(***************************************************************************)

\* The accounts an instruction of the program may rightly find in a slot.  A key
\* nobody stored is laid out as an empty account of the program that names it;
\* an empty account can also be stored with another owner.
Fresh(program) == Account(program, 0, <<>>)
New(program)   == {Fresh(program), Fresh("system")}

Expected(program, kind) ==
  CASE kind = "wallet"   -> {Account("system", 1, <<>>), Fresh(program)}
    [] kind = "new"      -> New(program)
    [] kind = "position" -> New(program) \cup {Account("mm", 0, <<"mm">>)}
    [] kind = "balance"  -> New(program) \cup {Account("runes", 0, <<"runes">>)}
    [] OTHER             -> {Account(kind, 0, <<kind>>)}

\* One such account per slot.
Tables(program, kinds, n) ==
  {t \in [1 .. n -> UNION {Expected(program, kinds[i]) : i \in 1 .. n}] :
     \A i \in 1 .. n : t[i] \in Expected(program, kinds[i])}

\* Departures: the account in a slot belongs to somebody else, or was funded
\* before anyone made it; the key of one slot is in another one as well; a slot
\* has other flags.
Foreign(t) ==
  {[t EXCEPT ![i] = a] : i \in DOMAIN t,
     a \in {Account(p, 0, <<p>>) : p \in Strangers} \cup {Account("system", 1, <<>>)}}
Doubled(n)   == {[i \in 1 .. n |-> IF i = q[2] THEN q[1] ELSE i] :
                   q \in {r \in (1 .. n) \X (1 .. n) : r[1] < r[2]}}
Reflagged(f) == {[f EXCEPT ![i] = g] : i \in DOMAIN f, g \in Flags}

InvocationInit ==
  /\ \E b \in Builders \cup ByHand :
       LET n == Len(b.flags)
           asMade == [i \in 1 .. n |-> i]
           right  == Tables(b.program, Instruction[b.program][b.name], n)
       IN \E f \in {b.flags} \cup Reflagged(b.flags), k \in {asMade} \cup Doubled(n),
             t \in right \cup UNION {Foreign(r) : r \in right} :
            LET departures == Cardinality({x \in {<<1, f = b.flags>>, <<2, k = asMade>>,
                                                  <<3, t \in right>>} : ~x[2]})
            IN /\ departures <= MaxDeviations
               /\ ix = [program |-> b.program, name |-> b.name, flags |-> f, keys |-> k,
                        was |-> t, built |-> b \in Builders /\ departures = 0]
               /\ acct = t
  /\ stack = <<>> /\ approved = <<>>
  /\ spent \in Residue
  /\ outcome = "running"

-----------------------------------------------------------------------------
reject_duplicate_writable(copies) ==
  \A i, j \in DOMAIN copies :
    IsWritable(copies[i].flag) /\ IsWritable(copies[j].flag) /\ copies[i].key = copies[j].key
      => i = j

Fail(error) ==
  /\ outcome' = error /\ stack' = <<>>
  /\ UNCHANGED <<ix, acct, approved, spent>>

\* A program that starts on its copies, in one of its ways to succeed that those
\* accounts are enough for.
Slots(e) == IF e.op = "call" THEN {e.window[i] : i \in DOMAIN e.window} ELSE {e.slot}
Frame(program, name, copies, window, effects) ==
  /\ effects \in run_builtin[program][name]
  /\ \A i \in DOMAIN effects : Slots(effects[i]) \subseteq DOMAIN copies
  /\ stack' = Append(stack, [program |-> program, copies |-> copies,
                             window |-> window, todo |-> effects])

\* A new instruction: no approvals, and nothing on the meter.
begin_execution == approved' = <<>> /\ spent' = 0

\* apply: the accounts are laid out and the program is dispatched.
Begin ==
  LET copies == [i \in DOMAIN ix.keys |->
                   [key |-> ix.keys[i], flag |-> ix.flags[i], state |-> acct[ix.keys[i]]]]
  IN /\ stack = <<>> /\ outcome = "running"
     /\ IF reject_duplicate_writable(copies)
        THEN /\ \E effects \in run_builtin[ix.program][ix.name] :
                  Frame(ix.program, ix.name, copies, <<>>, effects)
             /\ begin_execution
             /\ UNCHANGED <<ix, acct, outcome>>
        ELSE Fail("DuplicateWritableAccount")

-----------------------------------------------------------------------------
(***************************************************************************)
(* A program's own effects.                                                *)
(***************************************************************************)
Running == stack # <<>>
Top     == Last(stack)
Rest    == Front(stack)
Effect   == Head(Top.todo)

\* The running program goes on with its copies changed.
Continue(copies) ==
  /\ stack' = Append(Rest, [Top EXCEPT !.copies = copies, !.todo = Tail(@)])
  /\ UNCHANGED <<ix, acct, approved, spent, outcome>>

Written(i) == [Top.copies EXCEPT ![i].state.data = Append(@, Top.program)]

require_signer ==
  /\ Running /\ Top.todo # <<>> /\ Effect.op = "sign"
  /\ IF IsSigner(Top.copies[Effect.slot].flag) THEN Continue(Top.copies) ELSE Fail("MissingSigner")

write_data ==
  /\ Running /\ Top.todo # <<>> /\ Effect.op = "put"
  /\ IF IsWritable(Top.copies[Effect.slot].flag) THEN Continue(Written(Effect.slot)) ELSE Fail("NotWritable")

\* Changes that ask for no flag.
ChangeDirectly ==
  /\ Running /\ Top.todo # <<>>
  /\ LET i == Effect.slot
     IN \/ Effect.op = "set" /\ Continue(Written(i))
        \/ Effect.op = "add" /\ Continue([Top.copies EXCEPT ![i].state.lamports = @ + 1])
        \/ Effect.op = "give" /\ Continue([Written(i) EXCEPT ![i].state.owner = "token"])
        \/ Effect.op = "rekey" /\ Fail("VmError")

\* The program's checks on contents and amounts end it; nothing is stored.
Stop == Running /\ Fail("ProgramError")

-----------------------------------------------------------------------------
(***************************************************************************)
(* Calls.                                                                  *)
(***************************************************************************)
charge(units) == spent + units <= COMPUTE_BUDGET

\* The called program gets copies of the caller's copies; some count as signed
\* for the length of the call.
invoke_signed_indexed ==
  /\ Running /\ Top.todo # <<>> /\ Effect.op = "call"
  /\ LET c == Effect
         cost == CPI_BASE_COST + PER_ACCOUNT_COST * Len(c.window)
         copies == [i \in DOMAIN c.window |-> Top.copies[c.window[i]]]
         signed(flag) == IF IsWritable(flag) THEN "WS" ELSE "RS"
         window == [i \in DOMAIN copies |->
                      IF i \in c.signed THEN [copies[i] EXCEPT !.flag = signed(@)] ELSE copies[i]]
     IN IF Len(stack) > MAX_CPI_DEPTH THEN Fail("CpiDepthExceeded")
        ELSE IF ~charge(cost) THEN Fail("ComputeExhausted")
        ELSE IF ~reject_duplicate_writable(copies) THEN Fail("DuplicateWritableAccount")
        ELSE /\ \E effects \in run_builtin[c.program][c.name] :
                  Frame(c.program, c.name, window, c.window, effects)
             /\ spent' = spent + cost
             /\ UNCHANGED <<ix, acct, approved, outcome>>

-----------------------------------------------------------------------------
(***************************************************************************)
(* The owner gate.                                                         *)
(***************************************************************************)
same_state(a, b) == a = b

is_blank(a) == a.lamports = 0 /\ a.data = <<>>

credit_only(pre, post) == post.lamports >= pre.lamports /\ post = [pre EXCEPT !.lamports = post.lamports]

\* What a program may do to an account by itself: anything to its own, a credit,
\* the first write to an empty one.
Legal(program, pre, post) == pre.owner = program \/ credit_only(pre, post) \/ is_blank(pre)

validate_write_Mutant(program, key, pre, post, trail) ==
  \/ same_state(pre, post)
  \/ Legal(program, pre, post) \/ pre.data = <<>>
  \/ key \in DOMAIN trail /\ same_state(trail[key], post)

\* May the program leave post where pre was?  What it may not do by itself has to
\* be what a called program was last allowed to leave.
validate_write(program, key, pre, post, trail) ==
  \/ same_state(pre, post)
  \/ Legal(program, pre, post)
  \/ key \in DOMAIN trail /\ same_state(trail[key], post)

\* The first to write an empty account becomes its owner, unless the write names
\* another one.
claim(program, pre, post) ==
  IF is_blank(pre) /\ pre.owner # program /\ ~credit_only(pre, post) /\ post.owner = pre.owner
  THEN [post EXCEPT !.owner = program]
  ELSE post

Claimed(program, before, copies) ==
  [i \in DOMAIN copies |-> [copies[i] EXCEPT !.state = claim(program, before[i], @)]]

\* The approvals once the slots before n are judged: the last one for each key.
record(program, before, copies, n) ==
  LET made(k) == {i \in DOMAIN copies :
                    /\ i < n /\ copies[i].key = k /\ ~same_state(before[i], copies[i].state)
                    /\ Legal(program, before[i], copies[i].state)}
  IN [k \in DOMAIN approved \cup {c \in {copies[i].key : i \in DOMAIN copies} : made(c) # {}} |->
        IF made(k) = {} THEN approved[k] ELSE Claimed(program, before, copies)[Max(made(k))].state]

\* Slot by slot: the copies, with their owners, and the approvals made on the way.
validate_writes(program, before, copies) ==
  [ok     |-> \A i \in DOMAIN copies :
                validate_write(program, copies[i].key, before[i], copies[i].state,
                               record(program, before, copies, i)),
   trail  |-> record(program, before, copies, Len(copies) + 1),
   copies |-> Claimed(program, before, copies)]

write_back_Mutant(parents, window, copies) ==
  [j \in DOMAIN parents |->
     LET at == {i \in DOMAIN window : window[i] = j}
     IN IF at = {} THEN parents[j] ELSE copies[Max(at)]]

\* The caller's copies get the new state; the flags stay the caller's.
write_back(parents, window, copies) ==
  [j \in DOMAIN parents |->
     LET at == {i \in DOMAIN window : window[i] = j}
     IN IF at = {} THEN parents[j] ELSE [parents[j] EXCEPT !.state = copies[Max(at)].state]]

\* A call returns.
Return ==
  /\ Len(stack) > 1 /\ Top.todo = <<>>
  /\ LET caller == Last(Rest)
         gate == validate_writes(Top.program,
                   [i \in DOMAIN Top.window |-> caller.copies[Top.window[i]].state], Top.copies)
     IN IF gate.ok
        THEN /\ stack' = Append(Front(Rest),
                          [caller EXCEPT !.copies = write_back(@, Top.window, gate.copies),
                                         !.todo = Tail(@)])
             /\ approved' = gate.trail
             /\ UNCHANGED <<ix, acct, spent, outcome>>
        ELSE Fail("IllegalOwnerWrite")

\* The copies are stored slot by slot, so the last one of an account stays.
Overlay(copies) ==
  [k \in DOMAIN acct |->
     LET at == {i \in DOMAIN copies : copies[i].key = k}
     IN IF at = {} THEN acct[k] ELSE copies[Max(at)].state]

\* The instruction ends.
Finish ==
  /\ Len(stack) = 1 /\ Top.todo = <<>>
  /\ LET gate == validate_writes(ix.program, [i \in DOMAIN ix.keys |-> acct[ix.keys[i]]], Top.copies)
     IN IF gate.ok
        THEN /\ acct' = Overlay(gate.copies)
             /\ approved' = gate.trail
             /\ outcome' = "accepted" /\ stack' = <<>>
             /\ UNCHANGED <<ix, spent>>
        ELSE Fail("IllegalOwnerWrite")

InvocationNext ==
  \/ Begin \/ require_signer \/ write_data \/ ChangeDirectly \/ Stop
  \/ invoke_signed_indexed \/ Return \/ Finish

InvocationSpec == InvocationInit /\ [][InvocationNext]_invocationVars

-----------------------------------------------------------------------------
(***************************************************************************)
(* Properties.                                                             *)
(***************************************************************************)

\* What the programs' builders make can run: with the accounts each instruction
\* expects, made, empty or not there yet, no flag, signature, depth, budget or
\* owner is in the way of any program on the way down.  The one exception is
\* swap's builder, which flags the pool readonly: what it makes is always refused.
BuiltInstructionsRun ==
  ix.built =>
    /\ \/ outcome \in {"running", "accepted", "ProgramError"}
       \/ ix.name = "Swap" /\ outcome = "NotWritable"
    /\ ~(ix.name = "Swap" /\ outcome = "accepted")

\* Whatever a client passes where, and whoever calls whom: a stored change of
\* contents was made by the program that owned the account, or the account was
\* empty; and contents end up with the program that wrote them last, unless the
\* system program or a deployed one gave the account away.
OnlyOwnersWrite ==
  \A k \in DOMAIN acct :
    LET old == ix.was[k]
        writers == {acct[k].data[i] : i \in Len(old.data) + 1 .. Len(acct[k].data)}
    IN acct[k] # old =>
         /\ (writers \subseteq {old.owner} \/ is_blank(old))
         /\ writers \subseteq {acct[k].owner, "system", "guest"}

\* A called program's borrowed signature ends with the call: in the program that
\* a client's instruction runs, a slot counts as signed if the client signed it.
\* (cpi.rs: "The signer flag is scoped to the window".)
SignaturesStayScoped ==
  \A d \in DOMAIN stack : \A i \in DOMAIN stack[d].copies :
    LET c == stack[d].copies[i]
    IN IsSigner(c.flag) =>
         \/ \E s \in DOMAIN ix.keys : ix.keys[s] = c.key /\ IsSigner(ix.flags[s])
         \/ \E e \in 2 .. d : LET call == Head(stack[e - 1].todo)
                              IN \E j \in call.signed : stack[e].copies[j].key = c.key
=============================================================================
