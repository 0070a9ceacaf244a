------------------------------- MODULE Client -------------------------------
(***************************************************************************)
(* clients/cli/src/main.rs: users who run the star-escrow command against  *)
(* the escrow contract.  A command starts the stellar CLI, which checks    *)
(* the arguments against the contract's interface, signs with the user's   *)
(* secret and submits a transaction, and the client reports success        *)
(* exactly if the stellar CLI does.  The network stands between the two: a *)
(* transaction may land, be dropped, or land after the answer was lost, so *)
(* a user who is told of an error may retry what was done already.         *)
(*                                                                         *)
(* status and list only read and deploy makes another contract (it is in   *)
(* Deploy).  The contract can also be called by other tools (Elsewhere);   *)
(* in fact it must be, since this client's create is never accepted.       *)
(***************************************************************************)
EXTENDS Escrow

CONSTANTS
    Users,      \* accounts whose owner uses the client
    MaxCalls    \* bound on the commands one user runs

ASSUME ClientAssumption == Users \subseteq Accounts /\ MaxCalls \in Nat

Commands == {"init", "pause", "unpause", "create", "submit_work",
             "transfer_freelancer", "approve", "cancel", "expire"}

Call == [cmd  : Commands,
         net  : {"unsent", "pending", "landed", "dropped"},
         told : {"nothing", "ok", "error"}]

VARIABLE calls   \* for every user the commands they ran, in order

cvars == <<vars, calls>>

-----------------------------------------------------------------------------
(* The arguments main passes for a command, and the ones the contract's    *)
(* entry point has.                                                        *)

Passed(cmd) ==
    CASE cmd = "init"                -> {"admin", "fee_bps", "fee_collector"}
      [] cmd = "create"              -> {"payer", "freelancer", "token", "amount",
                                         "milestone", "deadline"}
      [] cmd = "transfer_freelancer" -> {"new_freelancer"}
      [] OTHER                       -> {}

Required(cmd) ==
    CASE cmd = "init"                     -> {"admin", "fee_bps", "fee_collector"}
      [] cmd = "create"                   -> {"payer", "freelancer", "token", "milestones",
                                              "yield_recipient", "interval", "recurrence_count"}
      [] cmd \in {"submit_work", "approve"} -> {"milestone_idx"}
      [] cmd = "transfer_freelancer"      -> {"new_freelancer"}
      [] OTHER                            -> {}

Optional(cmd) == IF cmd = "create" THEN {"deadline", "yield_protocol"} ELSE {}

\* The stellar CLI refuses an unknown and a missing argument.
ArgumentsFit(cmd) ==
    Required(cmd) \subseteq Passed(cmd) /\ Passed(cmd) \subseteq Required(cmd) \union Optional(cmd)

-----------------------------------------------------------------------------
Set(u, n, call) == calls' = [calls EXCEPT ![u][n] = call]

ClientInit == Init /\ calls = [u \in Users |-> << >>]

\* A user whose last command has returned runs another one.
Run(u, cmd) ==
    /\ Len(calls[u]) < MaxCalls
    /\ \A n \in DOMAIN calls[u] : calls[u][n].told # "nothing"
    /\ calls' = [calls EXCEPT ![u] = Append(@,
                    [cmd |-> cmd, told |-> "nothing",
                     net |-> IF ArgumentsFit(cmd) THEN "pending" ELSE "unsent"])]
    /\ UNCHANGED vars

\* The entry points that can be reached through the client.  init gets the
\* address of the user's secret as admin.
Invoke(u, cmd) ==
    \/ cmd = "init" /\ \E f \in FeeRates, c \in Accounts : init(u, f, c)
    \/ cmd = "pause" /\ pause
    \/ cmd = "unpause" /\ unpause
    \/ cmd = "transfer_freelancer" /\ \E f \in Accounts : transfer_freelancer(f)
    \/ cmd = "cancel" /\ cancel
    \/ cmd = "expire" /\ expire

\* The transaction carries the authorisation of its source, --source, only.
Land(u, n) ==
    /\ calls[u][n].net = "pending"
    /\ Invoke(u, calls[u][n].cmd)
    /\ auth' = u
    /\ Set(u, n, [calls[u][n] EXCEPT !.net = "landed"])

\* The contract returns an error, or the network drops the transaction.
Drop(u, n) ==
    /\ calls[u][n].net = "pending"
    /\ Set(u, n, [calls[u][n] EXCEPT !.net = "dropped"])
    /\ UNCHANGED vars

\* Mutant: the exit status of the stellar CLI is not looked at.
invoke_unchecked(u, n) ==
    /\ calls[u][n].told = "nothing"
    /\ Set(u, n, [calls[u][n] EXCEPT !.told = "ok"])
    /\ UNCHANGED vars

\* The stellar CLI exits.  Its status is zero only if it saw the transaction
\* succeed; it may also have given up on one that is pending or has landed.
invoke_stellar_cli(u, n) ==
    /\ calls[u][n].told = "nothing"
    /\ \E answer \in {"ok", "error"} :
          /\ answer = "ok" => calls[u][n].net = "landed"
          /\ Set(u, n, [calls[u][n] EXCEPT !.told = answer])
    /\ UNCHANGED vars

\* Other tools call the contract, ledgers close.
Elsewhere == Next /\ UNCHANGED calls

ClientNext ==
    \/ \E u \in Users, cmd \in Commands : Run(u, cmd)
    \/ \E u \in Users : \E n \in DOMAIN calls[u] :
          Land(u, n) \/ Drop(u, n) \/ invoke_stellar_cli(u, n)
    \/ Elsewhere

ClientSpec == ClientInit /\ [][ClientNext]_cvars

-----------------------------------------------------------------------------
(* Properties *)

AllCalls == {c \in Users \X (1..MaxCalls) : c[2] \in DOMAIN calls[c[1]]}

(***************************************************************************)
(* What the client has told a user stays true: after "Escrow cancelled.    *)
(* Funds refunded to payer." the escrow is cancelled and the contract      *)
(* empty for ever, likewise for expire, and after "Protocol initialised."  *)
(* the user is the admin, whatever lands late, is retried or is called     *)
(* elsewhere.  Holds for ClosedInputs.                                     *)
(***************************************************************************)
ToldTrue ==
    \A c \in AllCalls :
        LET call == calls[c[1]][c[2]]
        IN  call.told = "ok" =>
                CASE call.cmd = "init"   -> config # None /\ config.admin = c[1]
                  [] call.cmd = "cancel" -> Terminal /\ escrow.status = "Cancelled" /\ bal[Contract] = 0
                  [] call.cmd = "expire" -> Terminal /\ escrow.status = "Expired" /\ bal[Contract] = 0
                  [] OTHER               -> TRUE

(***************************************************************************)
(* Retrying is safe: of all the init commands at most one lands, and of    *)
(* all the cancel and expire commands together at most one, although the   *)
(* client repeats a command whose first transaction may still be pending.  *)
(***************************************************************************)
LandedOnce ==
    \A cmds \in {{"init"}, {"cancel", "expire"}} : \A c, d \in AllCalls :
        (\A k \in {c, d} : calls[k[1]][k[2]].net = "landed" /\ calls[k[1]][k[2]].cmd \in cmds)
            => c = d

=============================================================================
